---- MODULE Spec2Model ----
(***************************************************************************)
(* Model of the server side of the distributed key-value store:            *)
(*   src/src/kvstore/kvstore_dist_server.h  (Executor, KVStoreDistServer)  *)
(*                                                                         *)
(* Spec      the request handlers of KVStoreDistServer with                *)
(*           ENABLE_LEMETHOD unset: every RPC callback (CommandHandle,     *)
(*           DataHandleEx) is one action; the tensor engine's pending      *)
(*           writes complete in EngineStep.                                *)
(* SpecExec  class Executor at the granularity of its critical sections:   *)
(*           the thread that called Start and the RPC threads in Exec.     *)
(***************************************************************************)
EXTENDS Integers, Sequences, FiniteSets, TLC

\* ------------------------------------------------------------------ bounds
\* ps::NumWorkers(): the number of workers of the training run
NumWorkers == 2
\* messages (commands and data requests) delivered to the server in one run
MaxReq == 5
\* largest num_merge a push carries (KVMeta::num_merge)
MaxMerge == 2
\* largest number of row keys a row-sparse pull carries
MaxRows == 1
\* messages delivered in one run of the server that serves one key
MaxDenseReq == 6
\* RPC threads that call Executor::Exec, and closures each of them submits
NumRpcThreads == 2
MaxExec == 2
\* MyThreadPool: tasks handed to enqueue, threads set_max_thread_num may ask
\* for, and calls of set_max_thread_num after the constructor's
MaxTasks == 3
MaxThreads == 2
MaxResize == 1
\* LeMethod: receivers the oracle names in one model-distribution pass, and
\* messages delivered in one run of the server
MaxPeers == 2
MaxLeReq == 4
MaxLeKeysReq == 5
MaxLeMdReq == 3
\* the model-distribution passes enqueued in a run of SpecMd
MaxPasses == 2
\* messages delivered in one run of the server whose RPC threads interleave
MaxRaceReq == 4
\* row-sparse requests: the largest row id a request names, the rows of one
\* request, and the messages delivered in one run
MaxRowId == 2
MaxRspRows == 2
MaxRspReq == 4
MaxCompReq == 5
MaxCompSize == 2

\* two keys of this server's shard: key 1 holds float16 values, key 2 float32
Keys == {1, 2}
kFloat32 == "kFloat32"
kFloat16 == "kFloat16"
KeyDtype(k) == IF k = 1 THEN kFloat16 ELSE kFloat32

kDefaultPushPull == "kDefaultPushPull"
kRowSparsePushPull == "kRowSparsePushPull"
kCompressedPushPull == "kCompressedPushPull"
RequestTypes == {kDefaultPushPull, kRowSparsePushPull, kCompressedPushPull}

kController == "kController"
kSetMultiPrecision == "kSetMultiPrecision"
kSyncMode == "kSyncMode"
CommandTypes == {kController, kSetMultiPrecision, kSyncMode}

\* the values a push carries: one-element tensors, exact in float16
Payloads == {<<2>>, <<4>>}

VARIABLES sync_mode_, multi_precision_, updater_, store_, store_realt_, update_buf_, store_v_, ENABLE_TSENGINE, fatal, trace, last, nreq, queue_, blk, exec_pc, rpc_pc, running, done, submitted, cmd, tickets, served

\* class MyThreadPool: its members stop, tasks and workers; pool_pc is where
\* the thread that owns the pool is, res[t] what enqueue of task t gave its
\* caller, ran the tasks a worker has executed, in order
VARIABLES stop, tasks, workers, pool_pc, res, ran, resized

\* LeMethod: the members num_aggregation_ and iteration_; kvs[t] is what
\* enqueue bound to task t, md the locals of ModelDistribution on the pool's
\* worker, pass the calls it has made on the van since it began.
\* received[k] is the history of key k: the LOCAL_AGGREGATION messages that
\* have arrived for it since the last pass LocalAggregation enqueued for it.
VARIABLES num_aggregation_, iteration_, kvs, md, pass, received

\* h[t] is the call of DataHandleDefault that RPC thread t is in: where it
\* is, its request, and the locals it has set
VARIABLES h

srv_vars == <<sync_mode_, multi_precision_, updater_, store_, store_realt_, update_buf_, store_v_, ENABLE_TSENGINE, fatal, trace, last, nreq>>
exec_vars == <<queue_, blk, exec_pc, rpc_pc, running, done, submitted, cmd, tickets, served>>
pool_vars == <<stop, tasks, workers, pool_pc, res, ran, resized>>
le_vars == <<num_aggregation_, iteration_, kvs, md, pass, received>>
vars == <<srv_vars, exec_vars, pool_vars, le_vars, h>>
\* what the actions of one specification leave alone
beside_srv == <<exec_vars, pool_vars, le_vars, h>>
beside_exec == <<srv_vars, pool_vars, le_vars, h>>
beside_pool == <<srv_vars, exec_vars, le_vars, h>>
beside_le == <<exec_vars, h>>
beside_md == <<srv_vars, exec_vars, h>>

\* ------------------------------------------------------------ tensor values
\* A value is a sequence of integers.  float32 holds every integer of the
\* model; float16 holds the even ones, and a cast to it rounds down.
CastElem(x, dtype) == IF dtype = kFloat16 THEN x - (x % 2) ELSE x
Cast(v, dtype) == [i \in DOMAIN v |-> CastElem(v[i], dtype)]
Plus(a, b) == [i \in DOMAIN a |-> a[i] + b[i]]
Zeros(v) == [i \in DOMAIN v |-> 0]

\* An NDArray: is_none(), its dtype, the bytes a host pointer reads now (cur)
\* and the results of the engine operations still pending on it (pend, oldest
\* first).  view marks an array that wraps the memory of a request.
NoneArray == [none |-> TRUE, dtype |-> "none", cur |-> <<>>, pend |-> <<>>, view |-> FALSE]
NDArray(dtype) == [none |-> FALSE, dtype |-> dtype, cur |-> <<0>>, pend |-> <<>>, view |-> FALSE]
Recved(dtype, vals) == [none |-> FALSE, dtype |-> dtype, cur |-> vals, pend |-> <<>>, view |-> TRUE]
\* the value an array has once every operation pushed on it has run
Logical(a) == IF a.pend = <<>> THEN a.cur ELSE a.pend[Len(a.pend)]
\* engine operations: asynchronous, ordered per array by the engine
CopyFromTo(from, to) == [to EXCEPT !.pend = Append(@, Cast(Logical(from), to.dtype))]
PlusAssign(to, from) == [to EXCEPT !.pend = Append(@, Cast(Plus(Logical(to), Logical(from)), to.dtype))]
\* the host-side fence
WaitToRead(a) == IF a.none THEN a ELSE [a EXCEPT !.cur = Logical(a), !.pend = <<>>]
\* what stored.data().dptr_ shows: eng says whether the engine has already
\* run the operations that are pending on the array
RawRead(a, eng) == IF eng THEN Logical(a) ELSE a.cur

\* the optimizer set by set_updater: SGD with learning rate 1/2
Sgd(weight, grad) == [i \in DOMAIN weight |-> weight[i] - (grad[i] \div 2)]
Updater(update, stored) == [stored EXCEPT !.pend = Append(@, Cast(Sgd(Logical(stored), Logical(update)), stored.dtype))]

\* mshadow::mshadow_sizeof: bytes per element
mshadow_sizeof(dtype) == IF dtype = kFloat16 THEN 2 ELSE 4

\* -------------------------------------------------------- the server state
\* The members of KVStoreDistServer as one record, so that a handler is a
\* function from the state before it to the state after it.
St == [sync_mode_ |-> sync_mode_, multi_precision_ |-> multi_precision_, updater_ |-> updater_, store_ |-> store_, store_realt_ |-> store_realt_, update_buf_ |-> update_buf_, store_v_ |-> store_v_, tsengine |-> ENABLE_TSENGINE, fatal |-> "ok", trace |-> <<>>]

\* struct UpdateBuf
EmptyUpdateBuf == [request |-> <<>>, merged |-> NoneArray, temp_array |-> NoneArray]

\* ps::KVMeta of a request and DataHandleType of its cmd
KVMeta(timestamp, push, pull, num_merge) == [timestamp |-> timestamp, push |-> push, pull |-> pull, num_merge |-> num_merge]
DataHandleType(requestType, dtype) == [requestType |-> requestType, dtype |-> dtype]

\* what a handler sends or runs, in order (the variable trace holds the
\* events of the latest handler)
Ev(e, key, m, vals, lens, version) == [e |-> e, key |-> key, timestamp |-> m.timestamp, vals |-> vals, lens |-> lens, version |-> version]
NoMeta == [timestamp |-> 0]
Emit(s, ev) == [s EXCEPT !.trace = Append(@, ev)]

\* CHECK(...) that fails: LOG(FATAL) ends the handler and the process
Fatal(s, err) == [s EXCEPT !.fatal = err]

\* server->Response(req_meta): a plain acknowledgement
Response(s, key, req_meta) == Emit(s, Ev("Response", key, req_meta, <<>>, <<>>, 0))
\* server->Response(req_meta, response): keys, vals and lens
ResponseKV(s, key, req_meta, vals, lens) == Emit(s, Ev("ResponseKV", key, req_meta, vals, lens, 0))
\* server->AutoPullUpdate(version, req_meta, response)
AutoPullUpdate(s, key, version, req_meta, vals, lens) == Emit(s, Ev("AutoPullUpdate", key, req_meta, vals, lens, version))

\* a variant that forgets the dtype test
has_copy_any_dtype(s, type) == s.multi_precision_

has_multi_precision_copy(s, type) == s.multi_precision_ /\ type.dtype # kFloat32

\* auto& stored = has_multi_precision_copy(type) ? store_realt_[key] : store_[key]
Stored(s, type, key) == IF has_multi_precision_copy(s, type) THEN s.store_realt_[key] ELSE s.store_[key]
SetStored(s, type, key, a) == IF has_multi_precision_copy(s, type) THEN [s EXCEPT !.store_realt_[key] = a] ELSE [s EXCEPT !.store_[key] = a]

\* exec_.Exec(f) with the executor running: f runs on the thread that
\* called Start and Exec returns when f has returned (see SpecExec)
Exec(key, update, after) == Emit(after, Ev("updater", key, NoMeta, Logical(update), <<>>, 0))

\* the bytes of store_[key] as a response carries them; a read that saw the
\* engine's pending writes done leaves them done
ReadStored(s, key, eng) == RawRead(s.store_[key], eng)
AfterRead(s, key, eng) == IF eng THEN [s EXCEPT !.store_[key] = WaitToRead(@)] ELSE s

\* a variant that serialises the response without CHECK(!stored.is_none())
StorageResponseUnchecked(s, type, key, req_meta, nd) ==
  LET vals == ReadStored(s, key, nd.eng)
  IN  ResponseKV(s, key, req_meta, vals, <<Len(vals) * mshadow_sizeof(type.dtype)>>)

DefaultStorageResponse(s, type, key, req_meta, nd) ==
  IF s.fatal # "ok" THEN s
  ELSE IF s.store_[key].none THEN Fatal(s, "NotInitialized")
  ELSE LET s1 == IF has_multi_precision_copy(s, type) THEN [s EXCEPT !.store_[key] = WaitToRead(@)] ELSE s
           vals == ReadStored(s1, key, nd.eng)
           len == Len(vals) * mshadow_sizeof(s1.store_[key].dtype)
       IN  ResponseKV(AfterRead(s1, key, nd.eng), key, req_meta, vals, <<len>>)

\* a variant that stamps every message with version 0
AutoPullUnversioned(s, type, key, version, req_meta, nd) ==
  IF s.fatal # "ok" THEN s
  ELSE IF type.requestType # kDefaultPushPull THEN Fatal(s, "UnsupportedMode")
  ELSE IF s.store_[key].none THEN Fatal(s, "NotInitialized")
  ELSE LET s1 == IF has_multi_precision_copy(s, type) THEN [s EXCEPT !.store_[key] = WaitToRead(@)] ELSE s
           vals == ReadStored(s1, key, nd.eng)
           len == Len(vals) * mshadow_sizeof(s1.store_[key].dtype)
       IN  AutoPullUpdate(AfterRead(s1, key, nd.eng), key, 0, req_meta, vals, <<len>>)

DefaultAutoPull(s, type, key, version, req_meta, nd) ==
  IF s.fatal # "ok" THEN s
  ELSE IF type.requestType # kDefaultPushPull THEN Fatal(s, "UnsupportedMode")
  ELSE IF s.store_[key].none THEN Fatal(s, "NotInitialized")
  ELSE LET s1 == IF has_multi_precision_copy(s, type) THEN [s EXCEPT !.store_[key] = WaitToRead(@)] ELSE s
           vals == ReadStored(s1, key, nd.eng)
           len == Len(vals) * mshadow_sizeof(s1.store_[key].dtype)
       IN  AutoPullUpdate(AfterRead(s1, key, nd.eng), key, version, req_meta, vals, <<len>>)

\* the barrier: !sync_mode_ || update_buf->request.size() == NumWorkers()
BarrierReached(s, key) == ~s.sync_mode_ \/ Len(s.update_buf_[key].request) = NumWorkers

\* a variant that leaves the stored value alone when no optimizer is set
RunUpdaterOrSkip(s, type, key) ==
  LET stored == Stored(s, type, key)
      update == IF s.sync_mode_ THEN s.update_buf_[key].merged ELSE s.update_buf_[key].temp_array
  IN  IF s.fatal # "ok" THEN s
      ELSE IF s.updater_ THEN Exec(key, update, SetStored(s, type, key, Updater(update, stored)))
      ELSE IF ~s.sync_mode_ THEN Fatal(s, "UnsupportedMode")
      ELSE Emit(s, Ev("copy", key, NoMeta, Logical(s.update_buf_[key].merged), <<>>, 0))

\* the optimizer on the executor thread, or the copy when none is set
RunUpdater(s, type, key) ==
  LET stored == Stored(s, type, key)
      update == IF s.sync_mode_ THEN s.update_buf_[key].merged ELSE s.update_buf_[key].temp_array
  IN  IF s.fatal # "ok" THEN s
      ELSE IF s.updater_ THEN Exec(key, update, SetStored(s, type, key, Updater(update, stored)))
      ELSE IF ~s.sync_mode_ THEN Fatal(s, "UnsupportedMode")
      ELSE Emit(SetStored(s, type, key, CopyFromTo(s.update_buf_[key].merged, stored)), Ev("copy", key, NoMeta, Logical(s.update_buf_[key].merged), <<>>, 0))

\* bool has_pull: some request of the cohort has the pull flag
HasPull(request) == \E i \in DOMAIN request : request[i].pull

\* variants of the two statements before the responses of a cohort: one
\* without the fence, one without the copy into store_[key]
CopyDownNoWait(s, type, key) ==
  IF has_multi_precision_copy(s, type) THEN [s EXCEPT !.store_[key] = CopyFromTo(Stored(s, type, key), @)] ELSE s
WaitNoCopyDown(s, type, key) == SetStored(s, type, key, WaitToRead(Stored(s, type, key)))

\* if (has_multi_precision_copy(type)) CopyFromTo(stored, store_[key]); stored.WaitToRead();
CopyDownAndWait(s, type, key) ==
  LET s1 == IF has_multi_precision_copy(s, type) THEN [s EXCEPT !.store_[key] = CopyFromTo(Stored(s, type, key), @)] ELSE s
  IN  SetStored(s1, type, key, WaitToRead(Stored(s1, type, key)))

RECURSIVE RespondPulls(_, _, _, _, _, _)
RespondPulls(s, type, key, request, i, nd) ==
  IF i > Len(request) THEN s
  ELSE RespondPulls(IF request[i].pull THEN DefaultStorageResponse(s, type, key, request[i], nd) ELSE s, type, key, request, i + 1, nd)

RECURSIVE RespondAll(_, _, _, _)
RespondAll(s, key, request, i) ==
  IF i > Len(request) THEN s
  ELSE RespondAll(Response(s, key, request[i]), key, request, i + 1)

ClearRequest(s, key) == IF s.fatal # "ok" THEN s ELSE [s EXCEPT !.update_buf_[key].request = <<>>]

\* the responses of a completed cohort
RespondCohort(s, type, key, nd) ==
  LET request == s.update_buf_[key].request
  IN  IF s.fatal # "ok" THEN s
      ELSE IF HasPull(request)
      THEN ClearRequest(RespondPulls(CopyDownAndWait(s, type, key), type, key, request, 1, nd), key)
      ELSE CopyDownAndWait(ClearRequest(RespondAll(s, key, request, 1), key), type, key)

\* a variant that acknowledges the push it has just queued
WaitMergedAndAck(s, key) ==
  LET request == s.update_buf_[key].request
  IN  Response([s EXCEPT !.update_buf_[key].merged = WaitToRead(@)], key, request[Len(request)])

\* update_buf->merged.WaitToRead()
WaitMerged(s, key) == [s EXCEPT !.update_buf_[key].merged = WaitToRead(@)]

ApplyUpdates(s, type, key, nd) ==
  IF s.fatal # "ok" THEN s
  ELSE IF BarrierReached(s, key) THEN RespondCohort(RunUpdater(s, type, key), type, key, nd)
  ELSE WaitMerged(s, key)

\* a variant that leaves the version as it is
SameVersion(storev) == storev

\* storev++
NextVersion(storev) == storev + 1

ApplyUpdatesDefault(s, type, key, req_meta, nd) ==
  IF s.fatal # "ok" THEN s
  ELSE IF BarrierReached(s, key)
  THEN LET s1 == RunUpdater(WaitMerged(s, key), type, key)
           s2 == ClearRequest(s1, key)
           s3 == [s2 EXCEPT !.store_v_[key] = NextVersion(@)]
           s4 == CopyDownAndWait(s3, type, key)
       IN  IF s1.fatal # "ok" THEN s1 ELSE DefaultAutoPull(s4, type, key, s4.store_v_[key], req_meta, nd)
  ELSE WaitMerged(s, key)

\* CopyFromTo(recved, updates.temp_array).  In async mode without a master
\* copy temp_array is assigned recved itself, an array that wraps the memory
\* of that request; the memory is released when the handler returns, so a
\* later write through it is undefined: ub says whether it went wrong.
CopyToTemp(recved, temp_array, ub) ==
  IF temp_array.view /\ ub THEN [temp_array EXCEPT !.pend = Append(@, Zeros(recved.cur))]
  ELSE CopyFromTo(recved, temp_array)

\* a variant that acknowledges whatever the environment says
InitAckAlways(s, key, req_meta) == Response(s, key, req_meta)

\* if (!dmlc::GetEnv("ENABLE_TSENGINE", false)) { server->Response(req_meta); }
InitAck(s, key, req_meta) == IF ~s.tsengine THEN Response(s, key, req_meta) ELSE s

\* first push of a key: if (stored.is_none()) { ... }
InitStored(s, type, req_meta, key, recved, nd) ==
  LET mp == has_multi_precision_copy(s, type)
      stored == CopyFromTo(recved, NDArray(IF mp THEN kFloat32 ELSE type.dtype))
      s1 == SetStored(s, type, key, stored)
      s2 == InitAck(s1, key, req_meta)
      s3 == IF mp THEN [s2 EXCEPT !.store_[key] = WaitToRead(CopyFromTo(stored, NDArray(type.dtype)))] ELSE s2
      s4 == SetStored(s3, type, key, WaitToRead(Stored(s3, type, key)))
  IN  IF s.tsengine THEN DefaultAutoPull([s4 EXCEPT !.store_v_[key] = 0], type, key, 0, req_meta, nd) ELSE s4

\* the update buffer after the received values are merged into it
MergeRecved(s, type, key, recved, nd) ==
  LET mp == has_multi_precision_copy(s, type)
      u0 == s.update_buf_[key]
      u1 == IF s.sync_mode_ /\ u0.merged.none THEN [u0 EXCEPT !.merged = NDArray(IF mp THEN kFloat32 ELSE type.dtype)] ELSE u0
      u2 == IF mp /\ u1.temp_array.none THEN [u1 EXCEPT !.temp_array = NDArray(kFloat32)] ELSE u1
      t == CopyToTemp(recved, u2.temp_array, nd.ub)
  IN  IF u2.request = <<>>
      THEN IF s.sync_mode_ THEN [u2 EXCEPT !.merged = CopyFromTo(recved, @)]
           ELSE IF mp THEN [u2 EXCEPT !.temp_array = t]
           ELSE [u2 EXCEPT !.temp_array = recved]
      ELSE IF mp THEN [u2 EXCEPT !.temp_array = t, !.merged = PlusAssign(@, t)]
           ELSE [u2 EXCEPT !.merged = PlusAssign(@, recved)]

\* updates.request.push_back(req_meta), num_merge times under TSEngine
PushBack(request, req_meta, n) == request \o [i \in 1..n |-> req_meta]

\* a push to a key that is initialised: else { auto& updates = ... }
MergePush(s, type, req_meta, key, recved, nd) ==
  LET s1 == [s EXCEPT !.update_buf_[key] = MergeRecved(s, type, key, recved, nd)]
  IN  IF s.update_buf_[key].request # <<>> /\ ~s.sync_mode_ THEN Fatal(s, "UnsupportedMode")
      ELSE IF s.tsengine
      THEN ApplyUpdatesDefault([s1 EXCEPT !.update_buf_[key].request = PushBack(@, req_meta, req_meta.num_merge)], type, key, req_meta, nd)
      ELSE ApplyUpdates([s1 EXCEPT !.update_buf_[key].request = PushBack(@, req_meta, 1)], type, key, nd)

DataHandleDefault(s, type, req_meta, key, vals, nd) ==
  IF req_meta.push
  THEN LET s0 == IF s.tsengine THEN Response(s, key, req_meta) ELSE s
           recved == Recved(type.dtype, vals)
       IN  IF Stored(s0, type, key).none THEN InitStored(s0, type, req_meta, key, recved, nd)
           ELSE MergePush(s0, type, req_meta, key, recved, nd)
  ELSE DefaultStorageResponse(s, type, key, req_meta, nd)

\* the rows of a response: row i is read at data + row_id * unit_size.  A
\* row id at or past the number of rows the storage holds is read from the
\* memory behind it: nd.oob is what that read finds.
GatherRows(data, rows, nd) == [i \in DOMAIN rows |-> IF rows[i] < Len(data) THEN data[rows[i] + 1] ELSE nd.oob]

\* rows: the row ids (row key - master key) of the request, in its order
RowSparsePullResponse(s, type, master_key, rows, req_meta, nd) ==
  LET num_rows == Len(rows)
      s1 == IF has_multi_precision_copy(s, type) THEN [s EXCEPT !.store_[master_key] = WaitToRead(@)] ELSE s
      data == ReadStored(s1, master_key, nd.eng)
      unit_len == 1
  IN  IF num_rows = 0 THEN ResponseKV(s, master_key, req_meta, <<>>, <<0>>)
      ELSE IF s.store_[master_key].none THEN Fatal(s, "NotInitialized")
      ELSE ResponseKV(AfterRead(s1, master_key, nd.eng), master_key, req_meta, GatherRows(data, rows, nd), <<0>> \o [i \in 1..num_rows |-> unit_len])

\* A row-sparse tensor of unit length 1 is modelled by its dense value, one
\* element per row.  NDArray(kRowSparseStorage, shape, ...) holds no row yet:
\* its value is zero in every row of the shape.
RowSparseArray(like, dtype) == [NDArray(dtype) EXCEPT !.cur = Zeros(Logical(like))]
\* NDArray recved(kRowSparseStorage, stored.shape(), recv_blob, {idx_blob}, 0):
\* row rows[j] holds vals[j]
RowSparseRecved(dtype, like, rows, vals) ==
  Recved(dtype, [i \in DOMAIN Logical(like) |-> IF \E j \in DOMAIN rows : rows[j] = i - 1 THEN vals[CHOOSE j \in DOMAIN rows : rows[j] = i - 1] ELSE 0])

\* InitRowSparseStored: the storage gets num_rows rows, its row index is
\* filled with 0..num_rows-1 (PopulateFullIdxRspKernel) and the values
\* received are copied into it in their order
InitRowSparseStored(s, type, master_key, rows, vals, req_meta) ==
  LET mp == has_multi_precision_copy(s, type)
      recved == Recved(type.dtype, vals)
      stored == CopyFromTo(recved, [NDArray(IF mp THEN kFloat32 ELSE type.dtype) EXCEPT !.cur = Zeros(vals)])
      s1 == SetStored(s, type, master_key, stored)
      s2 == IF mp THEN [s1 EXCEPT !.store_[master_key] = WaitToRead(CopyFromTo(stored, RowSparseArray(stored, type.dtype)))] ELSE s1
  IN  Response(SetStored(s2, type, master_key, WaitToRead(Stored(s2, type, master_key))), master_key, req_meta)

\* AccumulateRowSparseGrads: out = to_merge + merged; CopyFromTo(out, merged)
AccumulateRowSparseGrads(s, type, recved, u, nd) ==
  LET mp == has_multi_precision_copy(s, type)
      t == IF mp THEN CopyToTemp(recved, u.temp_array, nd.ub) ELSE u.temp_array
      to_merge == IF mp THEN t ELSE recved
  IN  [u EXCEPT !.temp_array = t, !.merged = WaitToRead(PlusAssign(@, to_merge))]

\* a variant of the empty push that is acknowledged at once in sync mode too
EmptyRowSparsePushAcked(s, type, req_meta, master_key, u, nd) ==
  Response([s EXCEPT !.update_buf_[master_key] = u], master_key, req_meta)

\* if (num_rows == 0) { ... }: a push without rows to a key that is
\* initialised; u is the update buffer after the allocations at its head
EmptyRowSparsePush(s, type, req_meta, master_key, u, nd) ==
  LET mp == has_multi_precision_copy(s, type)
      stored == s.store_[master_key]
      u1 == IF u.request = <<>> THEN [u EXCEPT !.merged = RowSparseArray(stored, IF mp THEN kFloat32 ELSE type.dtype)] ELSE u
  IN  IF s.sync_mode_
      THEN ApplyUpdates([s EXCEPT !.update_buf_[master_key] = [u1 EXCEPT !.request = PushBack(@, req_meta, 1)]], type, master_key, nd)
      ELSE Response([s EXCEPT !.update_buf_[master_key] = u], master_key, req_meta)

\* the push branch of DataHandleRowSparse
RowSparsePush(s, type, req_meta, master_key, rows, vals, nd) ==
  LET num_rows == Len(rows)
      mp == has_multi_precision_copy(s, type)
      stored == s.store_[master_key]
      u0 == s.update_buf_[master_key]
      u1 == IF s.sync_mode_ /\ u0.merged.none THEN [u0 EXCEPT !.merged = RowSparseArray(stored, IF mp THEN kFloat32 ELSE type.dtype)] ELSE u0
      u2 == IF mp /\ u1.temp_array.none THEN [u1 EXCEPT !.temp_array = RowSparseArray(stored, kFloat32)] ELSE u1
      recved == RowSparseRecved(type.dtype, stored, rows, vals)
      u3 == IF u2.request = <<>>
            THEN IF s.sync_mode_ THEN [u2 EXCEPT !.merged = CopyFromTo(recved, @)]
                 ELSE IF mp THEN [u2 EXCEPT !.temp_array = CopyToTemp(recved, @, nd.ub)]
                 ELSE [u2 EXCEPT !.temp_array = recved]
            ELSE AccumulateRowSparseGrads(s, type, recved, u2, nd)
  IN  IF stored.none
      THEN IF num_rows = 0 THEN Fatal(s, "MalformedRequest")
           ELSE InitRowSparseStored(s, type, master_key, rows, vals, req_meta)
      ELSE IF num_rows = 0 THEN EmptyRowSparsePush(s, type, req_meta, master_key, u2, nd)
      ELSE IF u2.request # <<>> /\ ~s.sync_mode_ THEN Fatal([s EXCEPT !.update_buf_[master_key] = u2], "UnsupportedMode")
      ELSE ApplyUpdates([s EXCEPT !.update_buf_[master_key] = [u3 EXCEPT !.request = PushBack(@, req_meta, 1)]], type, master_key, nd)

DataHandleRowSparse(s, type, req_meta, master_key, rows, vals, nd) ==
  IF req_meta.push THEN RowSparsePush(s, type, req_meta, master_key, rows, vals, nd)
  ELSE RowSparsePullResponse(s, type, master_key, rows, req_meta, nd)

\* NDArray(dshape, Context()) with dshape = {original_size}
SizedArray(original_size) == [NDArray(kFloat32) EXCEPT !.cur = [i \in 1..original_size |-> 0]]
\* two arrays of one shape
SameShape(a, b) == Len(Logical(a)) = Len(Logical(b))
\* gradient_compression_->Dequantize(recved, to): the codec fills every
\* element of to from the two-bit code the payload holds for it, a code c
\* standing for c times the threshold (2 here); the payload is one word,
\* which holds a code for every element of the tensors of the model
Dequantize(recved, to) == [to EXCEPT !.pend = Append(@, Cast([i \in DOMAIN Logical(to) |-> 2 * recved.cur[i]], to.dtype))]

\* else if (sync_mode_) { ... }: the synced branch of a compressed push.
\* merged += decomp_buf and the update of stored from merged are
\* element-wise operations of the tensor library, which fail on operands
\* of different shapes.
CompressedSyncPush(s, type, req_meta, original_size, key, vals, nd) ==
  LET recved == Recved(kFloat32, vals)
      decomp_buf == SizedArray(original_size)
      u == s.update_buf_[key]
      u1 == IF u.merged.none THEN [u EXCEPT !.merged = SizedArray(original_size)] ELSE u
      first == u1.request = <<>>
      u2 == IF first THEN [u1 EXCEPT !.merged = Dequantize(recved, @)]
            ELSE IF SameShape(u1.merged, decomp_buf) THEN [u1 EXCEPT !.merged = PlusAssign(@, Dequantize(recved, decomp_buf))]
            ELSE u1
      u3 == [u2 EXCEPT !.request = PushBack(@, req_meta, 1)]
      s1 == [s EXCEPT !.update_buf_[key] = u3]
  IN  IF ~first /\ ~SameShape(u1.merged, decomp_buf) THEN Fatal([s EXCEPT !.update_buf_[key] = u1], "ShapeMismatch")
      ELSE IF BarrierReached(s1, key) /\ ~SameShape(u3.merged, s.store_[key]) THEN Fatal(s1, "ShapeMismatch")
      ELSE ApplyUpdates(s1, type, key, nd)

\* the async branch of a compressed push: the updater on the executor
\* thread with the decompressed gradient
CompressedAsyncPush(s, type, req_meta, original_size, key, vals, nd) ==
  LET decomp_buf == Dequantize(Recved(kFloat32, vals), SizedArray(original_size))
      stored == s.store_[key]
  IN  IF ~s.updater_ THEN Fatal(s, "UnsupportedMode")
      ELSE IF ~SameShape(decomp_buf, stored) THEN Fatal(s, "ShapeMismatch")
      ELSE LET s1 == Exec(key, decomp_buf, [s EXCEPT !.store_[key] = Updater(decomp_buf, stored)])
               s2 == Response(s1, key, req_meta)
           IN  [s2 EXCEPT !.store_[key] = WaitToRead(@)]

\* DataHandleCompressed: original_size is keys[0] of a push, vals its
\* compressed payload; a pull carries neither
DataHandleCompressed(s, type, req_meta, original_size, key, vals, nd) ==
  IF type.dtype # kFloat32 THEN Fatal(s, "UnsupportedMode")
  ELSE IF ~req_meta.push THEN DefaultStorageResponse(s, type, key, req_meta, nd)
  ELSE IF s.store_[key].none
  THEN LET s1 == [s EXCEPT !.store_[key] = Dequantize(Recved(kFloat32, vals), SizedArray(original_size))]
           s2 == Response(s1, key, req_meta)
       IN  [s2 EXCEPT !.store_[key] = WaitToRead(@)]
  ELSE IF s.sync_mode_ THEN CompressedSyncPush(s, type, req_meta, original_size, key, vals, nd)
  ELSE CompressedAsyncPush(s, type, req_meta, original_size, key, vals, nd)

\* DataHandleEx with ENABLE_LEMETHOD unset: dispatch on the request type
DataHandleEx(s, type, req_meta, key, vals, rows, nd) ==
  CASE type.requestType = kRowSparsePushPull -> DataHandleRowSparse(s, type, req_meta, key, rows, vals, nd)
    [] type.requestType = kCompressedPushPull -> DataHandleCompressed(s, type, req_meta, 0, key, vals, nd)
    [] type.requestType = kDefaultPushPull -> DataHandleDefault(s, type, req_meta, key, vals, nd)

\* a variant of the loop body without the CHECK on update.request
CreateCopyUnchecked(s, key) ==
  LET stored == s.store_[key]
  IN  IF s.fatal # "ok" \/ stored.none \/ stored.dtype = kFloat32 THEN s
      ELSE [s EXCEPT !.store_realt_[key] = CopyFromTo(stored, NDArray(kFloat32))]

\* one iteration of the loop of CreateMultiPrecisionCopies; the loop visits
\* the keys that hold a value
CreateCopyOf(s, key) ==
  LET stored == s.store_[key]
      s1 == [s EXCEPT !.store_realt_[key] = NDArray(kFloat32)]
      s2 == IF ~s1.update_buf_[key].merged.none THEN [s1 EXCEPT !.update_buf_[key].merged = NDArray(kFloat32)] ELSE s1
  IN  IF s.fatal # "ok" \/ stored.none \/ stored.dtype = kFloat32 THEN s
      ELSE IF Len(s2.update_buf_[key].request) # 0 THEN Fatal(s2, "ConfigurationRace")
      ELSE [s2 EXCEPT !.store_realt_[key] = CopyFromTo(stored, @)]

RECURSIVE CreateCopies(_, _)
CreateCopies(s, keys) ==
  IF keys = {} THEN s
  ELSE LET key == CHOOSE k \in keys : \A j \in keys : k <= j
       IN  CreateCopies(CreateCopyOf(s, key), keys \ {key})

CreateMultiPrecisionCopies(s) ==
  LET s1 == CreateCopies(s, Keys)
  IN  IF s1.fatal # "ok" THEN s1
      ELSE [s1 EXCEPT !.store_realt_ = [k \in Keys |-> WaitToRead(s1.store_realt_[k])]]

\* app->Response(recved): the acknowledgement of a command
CommandResponse(s, recved_type) == IF s.fatal # "ok" THEN s ELSE Emit(s, Ev(recved_type, 0, NoMeta, <<>>, <<>>, 0))

\* set_updater(updater), which the controller of the embedding runtime calls
\* when a worker sends it the optimizer
set_updater(s) == [s EXCEPT !.updater_ = TRUE]

\* controller_(recved.head, recved.body) on the executor thread
Controller(s) == Emit(set_updater(s), Ev("controller", 0, NoMeta, <<>>, <<>>, 0))

CommandHandle(s, recved_type) ==
  CASE recved_type = kController -> CommandResponse(Controller(s), recved_type)
    [] recved_type = kSyncMode -> CommandResponse([s EXCEPT !.sync_mode_ = TRUE], recved_type)
    [] recved_type = kSetMultiPrecision ->
         CommandResponse(IF ~s.multi_precision_ THEN CreateMultiPrecisionCopies([s EXCEPT !.multi_precision_ = TRUE]) ELSE s, recved_type)

\* ------------------------------------------------------------------ Spec
NoMsg == [kind |-> "none", requestType |-> "none", key |-> 0, meta |-> KVMeta(0, FALSE, FALSE, 0), vals |-> <<>>, rows |-> <<>>]
Msg(kind, requestType, key, meta, vals, rows) == [kind |-> kind, requestType |-> requestType, key |-> key, meta |-> meta, vals |-> vals, rows |-> rows]

\* struct Block: the closure f (NoFunc for the empty Func of Stop) and the
\* promise p, named by the thread that waits on its future; seq numbers the
\* blocks in the order queue_.push received them
NoFunc == "Func()"
Block(f, p, seq) == [f |-> f, p |-> p, seq |-> seq]
NoBlock == Block(NoFunc, 0, 0)
\* the commands of CommandType that Spec leaves out
kStopServer == "kStopServer"
kSetGradientCompression == "kSetGradientCompression"
kSetProfilerParams == "kSetProfilerParams"
RpcThreads == 1..NumRpcThreads

\* the executor before Run calls exec_.Start()
ExecIdle ==
  /\ queue_ = <<>>
  /\ blk = NoBlock
  /\ exec_pc = "idle"
  /\ rpc_pc = [t \in RpcThreads |-> "idle"]
  /\ running = {}
  /\ done = {}
  /\ submitted = [t \in RpcThreads |-> 0]
  /\ cmd = [t \in RpcThreads |-> "none"]
  /\ tickets = 0
  /\ served = 0

\* no RPC thread is inside DataHandleDefault
Handler(pc, req_meta, vals, empty, size, applied) == [pc |-> pc, req_meta |-> req_meta, vals |-> vals, empty |-> empty, size |-> size, applied |-> applied]
NoHandler == Handler("idle", [timestamp |-> 0], <<>>, FALSE, 0, <<>>)
HandlersIdle == h = [t \in 1..NumRpcThreads |-> NoHandler]

\* ps::Control::Command of a data request, and the values of ps::Van that
\* ModelDistribution uses
EMPTY == "EMPTY"
LOCAL_AGGREGATION == "LOCAL_AGGREGATION"
INIT == "INIT"
ControlCmds == {EMPTY, LOCAL_AGGREGATION, INIT}
QUIT == "QUIT"
UNKNOWN == "UNKNOWN"
\* the nodes the oracle can name
Peers == {"A", "B"}
\* the largest and the smallest value of the int that holds lastBandwidth
INT_MAX == 2147483647
INT_MIN == (0 - INT_MAX) - 1
\* endTime - startTime, the two readings of the clock around Send and
\* WaitForModelDistributionReply: us + more whole microseconds and ns further
\* nanoseconds
RoundTrip(us, more, ns) == [us |-> us, more |-> more, ns |-> ns]
\* less than a microsecond, one microsecond, and 2^31 + 1 microseconds
RoundTrips == {RoundTrip(0, 0, 999), RoundTrip(1, 0, 0), RoundTrip(INT_MAX, 2, 0)}
\* int(diff.count() * 1000000) with diff = startTime - endTime in seconds: the
\* conversion drops the fraction of a microsecond; a value below INT_MIN is
\* outside the range of int and the conversion is undefined: the conversion
\* instruction's out-of-range result, or the low 32 bits of the value
IntMicroseconds(rt) ==
  IF rt.more - 1 <= INT_MAX - rt.us THEN {(0 - rt.us) - rt.more}
  ELSE {INT_MIN, ((INT_MAX - rt.us) + (INT_MAX - rt.more)) + 2}
\* ps::KVMeta of a request when LeMethod is on
LeMeta(timestamp, push, pull, control_cmd, num_aggregation) == [timestamp |-> timestamp, push |-> push, pull |-> pull, num_merge |-> 1, control_cmd |-> control_cmd, num_aggregation |-> num_aggregation]
\* the arguments enqueue binds to ModelDistribution: reqMeta and kvs
KVPairs(reqMeta, key, vals) == [reqMeta |-> reqMeta, key |-> key, vals |-> vals]
NoKvs == [reqMeta |-> [timestamp |-> 0], key |-> 0, vals |-> <<>>]
\* ps::Message as ModelDistribution fills it
Message(timestamp, key, version, vals) == [timestamp |-> timestamp, key |-> key, version |-> version, vals |-> vals]
ModelDistributionLocals(pc, task, msg, lastBandwidth, lastReceiver, receiver) == [pc |-> pc, task |-> task, msg |-> msg, lastBandwidth |-> lastBandwidth, lastReceiver |-> lastReceiver, receiver |-> receiver]
NotDistributing == ModelDistributionLocals("idle", 0, Message(0, 0, 0, <<>>), UNKNOWN, UNKNOWN, UNKNOWN)
\* int num_aggregation_ = 0; int iteration_ = 0;
LeConstructed ==
  /\ num_aggregation_ = 0
  /\ iteration_ = 0
  /\ kvs = [t \in 1..MaxTasks |-> NoKvs]
  /\ md = NotDistributing
  /\ pass = <<>>
  /\ received = [k \in Keys |-> <<>>]

\* MyThreadPool(threads = 1): stop(false), then set_max_thread_num(threads)
\* starts one worker, which waits on the condition variable
Worker(pc, task) == [pc |-> pc, task |-> task]
\* a variant of the constructor that starts two workers
PoolConstructedTwoWorkers ==
  /\ stop = FALSE
  /\ tasks = <<>>
  /\ workers = <<Worker("condition.wait", 0), Worker("condition.wait", 0)>>
  /\ pool_pc = "running"
  /\ res = [t \in 1..MaxTasks |-> "none"]
  /\ ran = <<>>
  /\ resized = 0
PoolConstructed ==
  /\ stop = FALSE
  /\ tasks = <<>>
  /\ workers = <<Worker("condition.wait", 0)>>
  /\ pool_pc = "running"
  /\ res = [t \in 1..MaxTasks |-> "none"]
  /\ ran = <<>>
  /\ resized = 0

ServerConstructed ==
  /\ sync_mode_ = FALSE
  /\ store_ = [k \in Keys |-> NoneArray]
  /\ store_realt_ = [k \in Keys |-> NoneArray]
  /\ update_buf_ = [k \in Keys |-> EmptyUpdateBuf]
  /\ store_v_ = [k \in Keys |-> 0]
  /\ fatal = "ok"
  /\ trace = <<>>
  /\ last = NoMsg
  /\ nreq = 0

\* The constructor sets sync_mode_ and leaves multi_precision_ without a
\* value; set_updater may have been called before Run; ENABLE_TSENGINE is the
\* environment of the process.
Init ==
  /\ ServerConstructed
  /\ updater_ \in BOOLEAN
  /\ multi_precision_ \in BOOLEAN
  /\ ENABLE_TSENGINE \in BOOLEAN
  /\ ExecIdle
  /\ PoolConstructed
  /\ LeConstructed
  /\ HandlersIdle

Install(s, msg) ==
  /\ sync_mode_' = s.sync_mode_
  /\ multi_precision_' = s.multi_precision_
  /\ updater_' = s.updater_
  /\ store_' = s.store_
  /\ store_realt_' = s.store_realt_
  /\ update_buf_' = s.update_buf_
  /\ store_v_' = s.store_v_
  /\ fatal' = s.fatal
  /\ trace' = s.trace
  /\ last' = msg
  /\ UNCHANGED ENABLE_TSENGINE

\* What the handler of a request for key does not decide: whether the engine
\* has run the writes pending on store_[key] when the handler reads its bytes
\* (eng), and what a write through a released request buffer does (ub).
NonDet(key) == [eng : IF store_[key].pend # <<>> THEN BOOLEAN ELSE {FALSE}, ub : IF update_buf_[key].temp_array.view THEN BOOLEAN ELSE {FALSE}]
\* KVMeta::num_merge: 1 unless the TSEngine transport merged pushes on the way
NumMerges == IF ENABLE_TSENGINE THEN 1..MaxMerge ELSE {1}
\* KVMeta::pull of a push: the push handler reads it only without TSEngine
PullFlags == IF ENABLE_TSENGINE THEN {FALSE} ELSE BOOLEAN

\* a command, while fewer than max messages have been delivered
CommandUpTo(max) ==
  /\ fatal = "ok"
  /\ nreq < max
  /\ \E recved_type \in CommandTypes :
       Install(CommandHandle(St, recved_type), Msg(recved_type, "none", 0, NoMsg.meta, <<>>, <<>>))
  /\ nreq' = nreq + 1
  /\ UNCHANGED beside_srv

Command == CommandUpTo(MaxReq)

\* a dense push of one of keys
PushUpTo(max, keys) ==
  /\ fatal = "ok"
  /\ nreq < max
  /\ \E vals \in Payloads, key \in keys, pull \in PullFlags, num_merge \in NumMerges :
     \E nd \in NonDet(key) :
       LET req_meta == KVMeta(nreq + 1, TRUE, pull, num_merge)
           type == DataHandleType(kDefaultPushPull, KeyDtype(key))
       IN  Install(DataHandleEx(St, type, req_meta, key, vals, <<>>, nd), Msg("push", kDefaultPushPull, key, req_meta, vals, <<>>))
  /\ nreq' = nreq + 1
  /\ UNCHANGED beside_srv

Push == PushUpTo(MaxReq, Keys)

\* A pull request.  Compressed requests carry dtype float32 (the CHECK_EQ at
\* the head of DataHandleCompressed); every row key of a row-sparse pull
\* names row 0 of the one-row tensors of the model.
PullUpTo(max, keys, requestTypes) ==
  /\ fatal = "ok"
  /\ nreq < max
  /\ \E key \in keys, requestType \in requestTypes :
     \E nd \in NonDet(key), num_rows \in IF requestType = kRowSparsePushPull THEN 0..MaxRows ELSE {0} :
       LET req_meta == KVMeta(nreq + 1, FALSE, TRUE, 1)
           type == DataHandleType(requestType, KeyDtype(key))
           rows == [i \in 1..num_rows |-> 0]
       IN  /\ requestType = kCompressedPushPull => KeyDtype(key) = kFloat32
           /\ Install(DataHandleEx(St, type, req_meta, key, <<>>, rows, nd), Msg("pull", requestType, key, req_meta, <<>>, rows))
  /\ nreq' = nreq + 1
  /\ UNCHANGED beside_srv

Pull == PullUpTo(MaxReq, Keys, RequestTypes)

\* the engine runs the oldest operation pending on one array
RunOldest(a) == [a EXCEPT !.cur = Head(a.pend), !.pend = Tail(a.pend)]

EngineStep ==
  /\ fatal = "ok"
  /\ \E key \in Keys :
       /\ store_[key].pend # <<>>
       /\ store_' = [store_ EXCEPT ![key] = RunOldest(@)]
  /\ trace' = <<>>
  /\ last' = Msg("engine", "none", 0, NoMsg.meta, <<>>, <<>>)
  /\ UNCHANGED <<sync_mode_, multi_precision_, updater_, store_realt_, update_buf_, store_v_, ENABLE_TSENGINE, fatal, nreq, beside_srv>>

Next == Command \/ Push \/ Pull \/ EngineStep

Spec == Init /\ [][Next]_vars

\* -------------------------------------------------------------- SpecDense
\* The same server serving one float16 key with dense requests only, over a
\* longer run.
DenseCommand == CommandUpTo(MaxDenseReq)
DensePush == PushUpTo(MaxDenseReq, {1})
DensePull == PullUpTo(MaxDenseReq, {1}, {kDefaultPushPull})

NextDense == DenseCommand \/ DensePush \/ DensePull \/ EngineStep

SpecDense == Init /\ [][NextDense]_vars

\* --------------------------------------------------------------- SpecExec
\* class Executor and the commands of CommandHandle that use it.  Each action
\* is one critical section of mu_ or one step outside it.  running holds the
\* callbacks that are executing now, each with the thread it executes on;
\* cmd[t] is the command whose handler thread t is in; tickets counts the
\* blocks pushed and served the promises fulfilled.
ExecutorThread == 0
\* the closures the handlers pass to exec_.Exec, by what they call
ControllerClosure == "CommandHandle: controller_"
Closures == {ControllerClosure, "ApplyUpdatesDefault: updater_", "ApplyUpdates: updater_", "DataHandleCompressed: updater_"}
Callback(thread, f) == [thread |-> thread, f |-> f]
\* the commands whose case of the switch does not use the executor
PlainCommands == {kSyncMode, kSetGradientCompression, kSetProfilerParams, kSetMultiPrecision}

\* Run(): exec_.Start() on the thread that runs the server
Executor_Start ==
  /\ exec_pc = "idle"
  /\ exec_pc' = "cond_.wait"
  /\ UNCHANGED <<beside_exec, queue_, blk, rpc_pc, running, done, submitted, cmd, tickets, served>>

\* a variant of Exec that calls func on the calling thread
ExecInline(t, f) ==
  /\ running' = running \cup {Callback(t, f)}
  /\ rpc_pc' = [rpc_pc EXCEPT ![t] = "fut.wait"]
  /\ UNCHANGED <<queue_, blk, exec_pc, done, tickets, served>>

\* Exec up to fut.wait(): the block is queued under mu_
Executor_Exec(t, f) ==
  /\ queue_' = Append(queue_, Block(f, t, tickets + 1))
  /\ tickets' = tickets + 1
  /\ rpc_pc' = [rpc_pc EXCEPT ![t] = "fut.wait"]
  /\ UNCHANGED <<blk, exec_pc, running, done, served>>

\* an RPC thread reaches one of the exec_.Exec calls of the handlers: the
\* kController case of CommandHandle, or the updater of a data handler
HandlerExec ==
  \E t \in RpcThreads, f \in Closures :
    /\ rpc_pc[t] = "idle"
    /\ submitted[t] < MaxExec
    /\ submitted' = [submitted EXCEPT ![t] = @ + 1]
    /\ cmd' = [cmd EXCEPT ![t] = IF f = ControllerClosure THEN kController ELSE "none"]
      /\ Executor_Exec(t, f)
    /\ UNCHANGED beside_exec

\* kStopServer: exec_.Stop() is Exec(Func())
Executor_Stop ==
  \E t \in RpcThreads :
    /\ rpc_pc[t] = "idle"
    /\ submitted[t] < MaxExec
    /\ submitted' = [submitted EXCEPT ![t] = @ + 1]
    /\ cmd' = [cmd EXCEPT ![t] = kStopServer]
      /\ Executor_Exec(t, NoFunc)
    /\ UNCHANGED beside_exec

\* CommandHandle: a case of the switch that runs on the RPC thread alone
\* (its effect on the store is the action Command of Spec)
PlainCommand ==
  \E t \in RpcThreads, c \in PlainCommands :
    /\ rpc_pc[t] = "idle"
    /\ cmd' = [cmd EXCEPT ![t] = c]
    /\ rpc_pc' = [rpc_pc EXCEPT ![t] = "Response"]
      /\ UNCHANGED <<beside_exec, queue_, blk, exec_pc, running, done, submitted, tickets, served>>

\* a variant of the pop that takes the newest block
StartPopLast ==
  /\ exec_pc = "cond_.wait"
  /\ queue_ # <<>>
  /\ blk' = queue_[Len(queue_)]
  /\ queue_' = SubSeq(queue_, 1, Len(queue_) - 1)
  /\ exec_pc' = "unlocked"
  /\ UNCHANGED <<beside_exec, rpc_pc, running, done, submitted, cmd, tickets, served>>

\* Start: cond_.wait returns, front, pop, unlock
StartPop ==
  /\ exec_pc = "cond_.wait"
  /\ queue_ # <<>>
  /\ blk' = Head(queue_)
  /\ queue_' = Tail(queue_)
  /\ exec_pc' = "unlocked"
  /\ UNCHANGED <<beside_exec, rpc_pc, running, done, submitted, cmd, tickets, served>>

\* Start: if (blk.f) blk.f() begins
StartCall ==
  /\ exec_pc = "unlocked"
  /\ blk.f # NoFunc
  /\ running' = running \cup {Callback(ExecutorThread, blk.f)}
  /\ exec_pc' = "blk.f"
  /\ UNCHANGED <<beside_exec, queue_, blk, rpc_pc, done, submitted, cmd, tickets, served>>

\* Start: blk.f() returns
StartReturn ==
  /\ exec_pc = "blk.f"
  /\ running' = running \ {Callback(ExecutorThread, blk.f)}
  /\ exec_pc' = "set_value"
  /\ UNCHANGED <<beside_exec, queue_, blk, rpc_pc, done, submitted, cmd, tickets, served>>

\* Start: blk.p->set_value(); lk.lock(); back to cond_.wait
StartSetValue ==
  /\ exec_pc = "set_value"
  /\ done' = done \cup {blk.p}
  /\ served' = served + 1
  /\ exec_pc' = "cond_.wait"
  /\ UNCHANGED <<beside_exec, queue_, blk, rpc_pc, running, submitted, cmd, tickets>>

\* Start: the empty Func: blk.p->set_value(); break
StartBreak ==
  /\ exec_pc = "unlocked"
  /\ blk.f = NoFunc
  /\ done' = done \cup {blk.p}
  /\ served' = served + 1
  /\ exec_pc' = "returned"
  /\ UNCHANGED <<beside_exec, queue_, blk, rpc_pc, running, submitted, cmd, tickets>>

\* Exec: fut.wait() returns; a command handler goes on to its Response
ExecReturn ==
  \E t \in RpcThreads :
    /\ rpc_pc[t] = "fut.wait"
    /\ t \in done
    /\ done' = done \ {t}
    /\ rpc_pc' = [rpc_pc EXCEPT ![t] = IF cmd[t] # "none" THEN "Response" ELSE "idle"]
      /\ UNCHANGED <<beside_exec, queue_, blk, exec_pc, running, submitted, cmd, tickets, served>>

\* CommandHandle: app->Response(recved), after the switch
CommandAck ==
  \E t \in RpcThreads :
    /\ rpc_pc[t] = "Response"
    /\ cmd' = [cmd EXCEPT ![t] = "none"]
    /\ rpc_pc' = [rpc_pc EXCEPT ![t] = "idle"]
    /\ UNCHANGED <<beside_exec, queue_, blk, exec_pc, running, done, submitted, tickets, served>>

InitExec ==
  /\ ServerConstructed
  /\ updater_ = TRUE
  /\ multi_precision_ = FALSE
  /\ ENABLE_TSENGINE = FALSE
  /\ ExecIdle
  /\ PoolConstructed
  /\ LeConstructed
  /\ HandlersIdle

NextExec == Executor_Start \/ HandlerExec \/ Executor_Stop \/ PlainCommand \/ StartPop \/ StartCall \/ StartReturn \/ StartSetValue \/ StartBreak \/ ExecReturn \/ CommandAck

SpecExec == InitExec /\ [][NextExec]_vars

\* --------------------------------------------------------------- SpecPool
\* class MyThreadPool.  Each action is one critical section of queue_mutex
\* or one step outside it.

\* a variant of enqueue that does not look at stop
enqueueUnchecked(t) ==
  /\ tasks' = Append(tasks, t)
  /\ res' = [res EXCEPT ![t] = "future"]

\* enqueue(f, args...): under queue_mutex, throw if stop, else tasks.emplace
enqueue(t) ==
  IF stop
    THEN /\ res' = [res EXCEPT ![t] = "runtime_error"]
         /\ UNCHANGED tasks
    ELSE /\ tasks' = Append(tasks, t)
         /\ res' = [res EXCEPT ![t] = "future"]

\* a thread of the server calls threadPool_.enqueue with a task of its own
Enqueue ==
  \E t \in 1..MaxTasks :
    /\ res[t] = "none"
    /\ enqueue(t)
    /\ UNCHANGED <<stop, workers, pool_pc, ran, resized, beside_pool>>

\* Stop(), first part: stop = true under queue_mutex, notify_all
Stop ==
  /\ pool_pc = "running"
  /\ stop' = TRUE
  /\ pool_pc' = "Stop: join"
  /\ UNCHANGED <<tasks, workers, res, ran, resized, beside_pool>>

Joinable == \A w \in DOMAIN workers : workers[w].pc = "return"

\* Stop(), second part: worker.join() has returned for every worker
StopJoined ==
  /\ pool_pc = "Stop: join"
  /\ Joinable
  /\ pool_pc' = "stopped"
  /\ UNCHANGED <<stop, tasks, workers, res, ran, resized, beside_pool>>

\* set_max_thread_num(maxThreadNum): it begins with Stop()
set_max_thread_num ==
  /\ pool_pc = "running"
  /\ resized < MaxResize
  /\ stop' = TRUE
  /\ pool_pc' = "set_max_thread_num: join"
  /\ resized' = resized + 1
  /\ UNCHANGED <<tasks, workers, res, ran, beside_pool>>

\* set_max_thread_num after its Stop(): stop = false, workers.clear(), and
\* maxThreadNum new workers
Respawn ==
  \E maxThreadNum \in 1..MaxThreads :
    /\ pool_pc = "set_max_thread_num: join"
    /\ Joinable
    /\ stop' = FALSE
    /\ workers' = [w \in 1..maxThreadNum |-> Worker("condition.wait", 0)]
    /\ pool_pc' = "running"
    /\ UNCHANGED <<tasks, res, ran, resized, beside_pool>>

\* a variant of the worker that returns as soon as it sees stop
WorkerWakeStopFirst ==
  \E w \in DOMAIN workers :
    /\ workers[w].pc = "condition.wait"
    /\ stop \/ tasks # <<>>
    /\ IF stop
         THEN /\ workers' = [workers EXCEPT ![w] = Worker("return", 0)]
              /\ UNCHANGED tasks
         ELSE /\ workers' = [workers EXCEPT ![w] = Worker("task()", Head(tasks))]
              /\ tasks' = Tail(tasks)
    /\ UNCHANGED <<stop, pool_pc, res, ran, resized, beside_pool>>

\* a worker leaves condition.wait: it returns if stop is set and tasks is
\* empty, and takes tasks.front() otherwise
WorkerWake ==
  \E w \in DOMAIN workers :
    /\ workers[w].pc = "condition.wait"
    /\ stop \/ tasks # <<>>
    /\ IF stop /\ tasks = <<>>
         THEN /\ workers' = [workers EXCEPT ![w] = Worker("return", 0)]
              /\ UNCHANGED tasks
         ELSE /\ workers' = [workers EXCEPT ![w] = Worker("task()", Head(tasks))]
              /\ tasks' = Tail(tasks)
    /\ UNCHANGED <<stop, pool_pc, res, ran, resized, beside_pool>>

\* a worker runs the task it took, outside the lock, and loops
WorkerTask ==
  \E w \in DOMAIN workers :
    /\ workers[w].pc = "task()"
    /\ ran' = Append(ran, workers[w].task)
    /\ workers' = [workers EXCEPT ![w] = Worker("condition.wait", 0)]
    /\ UNCHANGED <<stop, tasks, pool_pc, res, resized, beside_pool>>

InitPool ==
  /\ ServerConstructed
  /\ updater_ = TRUE
  /\ multi_precision_ = FALSE
  /\ ENABLE_TSENGINE = FALSE
  /\ ExecIdle
  /\ PoolConstructed
  /\ LeConstructed
  /\ HandlersIdle

NextPool == Enqueue \/ Stop \/ StopJoined \/ set_max_thread_num \/ Respawn \/ WorkerWake \/ WorkerTask

SpecPool == InitPool /\ [][NextPool]_vars

\* The pool when every thread that can take a step is eventually scheduled and
\* every task returns: a worker that can leave condition.wait does, a task
\* that was taken returns, and join() returns once the workers have returned.
PoolFairness == WF_vars(WorkerWake) /\ WF_vars(WorkerTask) /\ WF_vars(StopJoined) /\ WF_vars(Respawn)

SpecPoolFair == InitPool /\ [][NextPool]_vars /\ PoolFairness

\* ----------------------------------------------------------------- SpecLe
\* The request handlers of the server with ENABLE_LEMETHOD set (and
\* ENABLE_TSENGINE unset).  The ModelDistribution tasks they hand to the pool
\* stay in its queue; SpecMd runs them.
LeSt == [s |-> St, num_aggregation_ |-> num_aggregation_, kvs |-> NoKvs]

\* a variant of LocalAggregation whose barrier test is >= instead of ==
LocalAggregationAtLeast(l, type, reqMeta, key, vals, junk) ==
  LET s == l.s
      recved == Recved(type.dtype, vals)
      stored0 == IF s.store_[key].none THEN [NDArray(type.dtype) EXCEPT !.cur = junk] ELSE s.store_[key]
      stored == WaitToRead(IF l.num_aggregation_ = 0 THEN CopyFromTo(recved, stored0) ELSE PlusAssign(stored0, recved))
      n == l.num_aggregation_ + reqMeta.num_aggregation
      s1 == Emit([s EXCEPT !.store_[key] = stored], Ev(LOCAL_AGGREGATION, key, reqMeta, stored.cur, <<>>, 0))
  IN  IF n < NumWorkers THEN [l EXCEPT !.s = s1, !.num_aggregation_ = n]
      ELSE IF ~s.sync_mode_ THEN [l EXCEPT !.s = Fatal(s1, "UnsupportedMode"), !.num_aggregation_ = n]
      ELSE [s |-> Emit(s1, Ev("NoticeWorkersOneIterationFinish", key, reqMeta, <<>>, <<>>, 0)), num_aggregation_ |-> 0, kvs |-> KVPairs(reqMeta, key, stored.cur)]

\* LocalAggregation.  A store_[key] that is none is allocated without being
\* filled: junk is what its memory holds.
LocalAggregation(l, type, reqMeta, key, vals, junk) ==
  LET s == l.s
      recved == Recved(type.dtype, vals)
      stored0 == IF s.store_[key].none THEN [NDArray(type.dtype) EXCEPT !.cur = junk] ELSE s.store_[key]
      stored == WaitToRead(IF l.num_aggregation_ = 0 THEN CopyFromTo(recved, stored0) ELSE PlusAssign(stored0, recved))
      n == l.num_aggregation_ + reqMeta.num_aggregation
      s1 == Emit([s EXCEPT !.store_[key] = stored], Ev(LOCAL_AGGREGATION, key, reqMeta, stored.cur, <<>>, 0))
  IN  IF n # NumWorkers THEN [l EXCEPT !.s = s1, !.num_aggregation_ = n]
      ELSE IF ~s.sync_mode_ THEN [l EXCEPT !.s = Fatal(s1, "UnsupportedMode"), !.num_aggregation_ = n]
      ELSE [s |-> Emit(s1, Ev("NoticeWorkersOneIterationFinish", key, reqMeta, <<>>, <<>>, 0)), num_aggregation_ |-> 0, kvs |-> KVPairs(reqMeta, key, stored.cur)]

\* the INIT branch: DataHandleDefault, then the bytes of store_[key] are
\* copied for ModelDistribution
LeMethodInit(l, type, req_meta, key, vals, nd) ==
  LET s1 == DataHandleDefault(l.s, type, req_meta, key, vals, nd)
  IN  IF s1.fatal # "ok" THEN [l EXCEPT !.s = s1]
      ELSE [l EXCEPT !.s = AfterRead(s1, key, nd.eng), !.kvs = KVPairs(req_meta, key, ReadStored(s1, key, nd.eng))]

\* a variant of the dispatch that treats every unmarked request as INIT
DataHandleExLeMethodElseInit(l, type, req_meta, key, vals, nd, junk) ==
  IF type.requestType # kDefaultPushPull THEN [l EXCEPT !.s = Fatal(l.s, "UnsupportedMode")]
  ELSE IF req_meta.control_cmd = LOCAL_AGGREGATION THEN LocalAggregation(l, type, req_meta, key, vals, junk)
  ELSE LeMethodInit(l, type, req_meta, key, vals, nd)

\* DataHandleEx, the branch of ENABLE_LEMETHOD
DataHandleExLeMethod(l, type, req_meta, key, vals, nd, junk) ==
  IF type.requestType # kDefaultPushPull THEN [l EXCEPT !.s = Fatal(l.s, "UnsupportedMode")]
  ELSE IF req_meta.control_cmd = LOCAL_AGGREGATION THEN LocalAggregation(l, type, req_meta, key, vals, junk)
  ELSE IF req_meta.control_cmd = INIT THEN LeMethodInit(l, type, req_meta, key, vals, nd)
  ELSE l

\* the task number the next call of threadPool_.enqueue gets
NextTask == Cardinality({t \in 1..MaxTasks : res[t] # "none"}) + 1
\* what the memory of a fresh array may hold
Junk(key) == IF store_[key].none /\ num_aggregation_ # 0 THEN {<<0>>, <<6>>} ELSE {<<0>>}

\* the key of this server's shard that the run uses
LeKeys == {1}
LeCommand == CommandUpTo(MaxLeReq)

\* the history of key after a message: a pass enqueued by LocalAggregation
\* begins the next iteration of the key
Received(key, req_meta, vals, l) ==
  IF l.s.fatal # "ok" \/ req_meta.control_cmd # LOCAL_AGGREGATION THEN received
  ELSE IF l.kvs # NoKvs THEN [received EXCEPT ![key] = <<>>]
  ELSE [received EXCEPT ![key] = Append(@, [vals |-> vals, num_aggregation |-> req_meta.num_aggregation])]

\* A data request for one of keys, while fewer than max messages have been
\* delivered.  A request marked LOCAL_AGGREGATION is a push.
LeRequestUpTo(max, keys) ==
  /\ fatal = "ok"
  /\ nreq < max
  /\ \E requestType \in RequestTypes, push \in BOOLEAN, control_cmd \in ControlCmds, key \in keys, num_aggregation \in 1..MaxMerge :
     \E vals \in IF push THEN Payloads ELSE {<<>>}, nd \in NonDet(key), junk \in Junk(key) :
       LET req_meta == LeMeta(nreq + 1, push, ~push, control_cmd, num_aggregation)
           type == DataHandleType(requestType, KeyDtype(key))
           l == DataHandleExLeMethod(LeSt, type, req_meta, key, vals, nd, junk)
       IN  /\ control_cmd = LOCAL_AGGREGATION => push
           /\ control_cmd # LOCAL_AGGREGATION => num_aggregation = 1
           /\ Install(l.s, Msg(IF push THEN "push" ELSE "pull", requestType, key, req_meta, vals, <<>>))
           /\ num_aggregation_' = l.num_aggregation_
           /\ received' = Received(key, req_meta, vals, l)
           /\ IF l.kvs # NoKvs
                THEN /\ NextTask <= MaxTasks
                     /\ enqueue(NextTask)
                     /\ kvs' = [kvs EXCEPT ![NextTask] = l.kvs]
                ELSE UNCHANGED <<tasks, res, kvs>>
  /\ nreq' = nreq + 1
  /\ UNCHANGED <<beside_le, stop, workers, pool_pc, ran, resized, iteration_, md, pass>>

LeRequest == LeRequestUpTo(MaxLeReq, LeKeys)

\* the constructor has called threadPool_.set_max_thread_num(1)
InitLe ==
  /\ ServerConstructed
  /\ updater_ \in BOOLEAN
  /\ multi_precision_ \in BOOLEAN
  /\ ENABLE_TSENGINE = FALSE
  /\ ExecIdle
  /\ PoolConstructed
  /\ LeConstructed
  /\ HandlersIdle

NextLe == LeCommand \/ LeRequest \/ EngineStep

SpecLe == InitLe /\ [][NextLe]_vars

\* The same server when the requests name either key of the shard.  The
\* workers initialise a key once, with a request marked INIT, before they
\* aggregate into it.
LeKeysCommand == CommandUpTo(MaxLeKeysReq)
LeKeysRequest ==
  /\ LeRequestUpTo(MaxLeKeysReq, Keys)
  /\ last'.meta.control_cmd = INIT => store_[last'.key].none
  /\ last'.meta.control_cmd = LOCAL_AGGREGATION => ~store_[last'.key].none
NextLeKeys == LeKeysCommand \/ LeKeysRequest

SpecLeKeys == InitLe /\ [][NextLeKeys]_vars

\* ----------------------------------------------------------------- SpecMd
\* ModelDistribution on the one worker of the pool, one action per call it
\* makes on the van, while handlers enqueue further tasks.

\* threadPool_.enqueue(&KVStoreDistServer::ModelDistribution, this, reqMeta,
\* kvs) at the end of LocalAggregation or of the INIT branch
EnqueueModelDistribution ==
  \E control_cmd \in {LOCAL_AGGREGATION, INIT}, key \in LeKeys, vals \in Payloads :
    /\ NextTask <= MaxPasses
    /\ enqueue(NextTask)
    /\ kvs' = [kvs EXCEPT ![NextTask] = KVPairs(LeMeta(NextTask, TRUE, FALSE, control_cmd, 1), key, vals)]
    /\ UNCHANGED <<beside_md, stop, workers, pool_pc, ran, resized, num_aggregation_, iteration_, md, pass, received>>

\* ModelDistribution up to the loop: iteration_++ and the message
ModelDistribution ==
  \E w \in DOMAIN workers :
    /\ fatal = "ok"
    /\ workers[w].pc = "task()"
    /\ md.pc = "idle"
    /\ iteration_' = iteration_ + 1
    /\ LET t == workers[w].task
       IN  md' = ModelDistributionLocals("GetModelReceiver", t, Message(kvs[t].reqMeta.timestamp, kvs[t].key, iteration_ + 1, kvs[t].vals), UNKNOWN, UNKNOWN, UNKNOWN)
    /\ pass' = <<>>
    /\ UNCHANGED <<beside_md, pool_vars, num_aggregation_, kvs, received>>

Sends(log) == {i \in DOMAIN log : log[i].op = "Send"}

\* van()->GetModelReceiver(lastBandwidth, lastReceiver, iteration_): the
\* oracle names a node or QUIT, and QUIT ends the task
GetModelReceiver ==
  \E w \in DOMAIN workers, receiver \in Peers \cup {QUIT} :
    /\ fatal = "ok"
    /\ workers[w].pc = "task()"
    /\ md.pc = "GetModelReceiver"
    /\ receiver # QUIT => Cardinality(Sends(pass)) < MaxPeers
    /\ pass' = Append(pass, [op |-> "GetModelReceiver", lastBandwidth |-> md.lastBandwidth, lastReceiver |-> md.lastReceiver, iteration |-> iteration_, receiver |-> receiver])
    /\ IF receiver = QUIT
         THEN /\ md' = [md EXCEPT !.pc = "idle", !.receiver = receiver]
              /\ ran' = Append(ran, workers[w].task)
              /\ workers' = [workers EXCEPT ![w] = Worker("condition.wait", 0)]
         ELSE /\ md' = [md EXCEPT !.pc = "Send", !.receiver = receiver]
              /\ UNCHANGED <<ran, workers>>
    /\ UNCHANGED <<beside_md, stop, tasks, pool_pc, res, resized, num_aggregation_, iteration_, kvs, received>>

\* a variant that asks for the next receiver without waiting for the reply
SendWithoutWait ==
  /\ fatal = "ok"
  /\ md.pc = "Send"
  /\ pass' = Append(pass, [op |-> "Send", recver |-> md.receiver, msg |-> md.msg])
  /\ md' = [md EXCEPT !.pc = "GetModelReceiver"]
  /\ UNCHANGED <<beside_md, pool_vars, num_aggregation_, iteration_, kvs, received>>

\* msg.meta.recver = receiver; van()->Send(msg)
Send ==
  /\ fatal = "ok"
  /\ md.pc = "Send"
  /\ pass' = Append(pass, [op |-> "Send", recver |-> md.receiver, msg |-> md.msg])
  /\ md' = [md EXCEPT !.pc = "WaitForModelDistributionReply"]
  /\ UNCHANGED <<beside_md, pool_vars, num_aggregation_, iteration_, kvs, received>>

\* van()->WaitForModelDistributionReply() returns; lastBandwidth and
\* lastReceiver are set
WaitForModelDistributionReply ==
  \E rt \in RoundTrips : \E lastBandwidth \in IntMicroseconds(rt) :
    /\ fatal = "ok"
    /\ md.pc = "WaitForModelDistributionReply"
    /\ pass' = Append(pass, [op |-> "WaitForModelDistributionReply", rt |-> rt])
    /\ md' = [md EXCEPT !.pc = "GetModelReceiver", !.lastBandwidth = lastBandwidth, !.lastReceiver = md.receiver]
    /\ UNCHANGED <<beside_md, pool_vars, num_aggregation_, iteration_, kvs, received>>

InitMd ==
  /\ ServerConstructed
  /\ updater_ = TRUE
  /\ multi_precision_ = FALSE
  /\ ENABLE_TSENGINE = FALSE
  /\ ExecIdle
  /\ PoolConstructed
  /\ LeConstructed
  /\ HandlersIdle

NextMd == EnqueueModelDistribution \/ WorkerWake \/ ModelDistribution \/ GetModelReceiver \/ Send \/ WaitForModelDistributionReply

SpecMd == InitMd /\ [][NextMd]_vars

\* --------------------------------------------------------------- SpecLeMd
\* The request handlers on the RPC thread and ModelDistribution on the
\* pool's worker together: requests arrive while a pass is queued or running.
LeMdCommand == CommandUpTo(MaxLeMdReq)
LeMdRequest == LeRequestUpTo(MaxLeMdReq, LeKeys)

NextLeMd == LeMdCommand \/ LeMdRequest \/ EngineStep \/ WorkerWake \/ ModelDistribution \/ GetModelReceiver \/ Send \/ WaitForModelDistributionReply

SpecLeMd == InitLe /\ [][NextLeMd]_vars

\* --------------------------------------------------------------- SpecRace
\* Sync-mode pushes of key 1 handled by several RPC threads at once, without
\* TSEngine or a master copy: DataHandleDefault and ApplyUpdates take no
\* lock, so the statements of two calls interleave.  One action is one
\* statement of one call.  The commands and the first push of the key are
\* handled before the threads start.
\* Each of these statements waits for the writes it queued on store_[key],
\* so the engine has no step of its own here.
RaceKey == 1
RaceType == DataHandleType(kDefaultPushPull, KeyDtype(RaceKey))
RaceMsg(t) == Msg("push", kDefaultPushPull, RaceKey, h[t].req_meta, h[t].vals, <<>>)
RaceCommand == HandlersIdle /\ CommandUpTo(MaxRaceReq)
RacePush == HandlersIdle /\ store_[RaceKey].none /\ PushUpTo(MaxRaceReq, {RaceKey})

\* a push for the key arrives on thread t: the CHECKs and the local recved
HandlerBegin ==
  \E t \in RpcThreads, vals \in Payloads, pull \in BOOLEAN :
    /\ fatal = "ok"
    /\ nreq < MaxRaceReq
    /\ sync_mode_ /\ ~store_[RaceKey].none
    /\ h[t].pc = "idle"
    /\ h' = [h EXCEPT ![t] = Handler("updates.request.empty()", KVMeta(nreq + 1, TRUE, pull, 1), vals, FALSE, 0, <<>>)]
    /\ nreq' = nreq + 1
    /\ last' = Msg("push", kDefaultPushPull, RaceKey, KVMeta(nreq + 1, TRUE, pull, 1), vals, <<>>)
    /\ trace' = <<>>
    /\ UNCHANGED <<sync_mode_, multi_precision_, updater_, store_, store_realt_, update_buf_, store_v_, ENABLE_TSENGINE, fatal, exec_vars, pool_vars, le_vars>>

\* if (sync_mode_ && updates.merged.is_none()) updates.merged = NDArray(...);
\* if (updates.request.empty())
HandlerEmpty ==
  \E t \in RpcThreads :
    /\ fatal = "ok"
    /\ h[t].pc = "updates.request.empty()"
    /\ h' = [h EXCEPT ![t].pc = "merged", ![t].empty = (update_buf_[RaceKey].request = <<>>)]
    /\ update_buf_' = [update_buf_ EXCEPT ![RaceKey].merged = IF @.none THEN NDArray(RaceType.dtype) ELSE @]
    /\ last' = RaceMsg(t)
    /\ trace' = <<>>
    /\ UNCHANGED <<sync_mode_, multi_precision_, updater_, store_, store_realt_, store_v_, ENABLE_TSENGINE, fatal, nreq, exec_vars, pool_vars, le_vars>>

\* CopyFromTo(recved, updates.merged) or updates.merged += recved
Merged(t) == IF h[t].empty THEN CopyFromTo(Recved(RaceType.dtype, h[t].vals), update_buf_[RaceKey].merged) ELSE PlusAssign(update_buf_[RaceKey].merged, Recved(RaceType.dtype, h[t].vals))

HandlerMerge ==
  \E t \in RpcThreads :
    /\ fatal = "ok"
    /\ h[t].pc = "merged"
    /\ update_buf_' = [update_buf_ EXCEPT ![RaceKey].merged = Merged(t)]
    /\ h' = [h EXCEPT ![t].pc = "push_back"]
    /\ last' = RaceMsg(t)
    /\ trace' = <<>>
    /\ UNCHANGED <<sync_mode_, multi_precision_, updater_, store_, store_realt_, store_v_, ENABLE_TSENGINE, fatal, nreq, exec_vars, pool_vars, le_vars>>

\* updates.request.push_back(req_meta), first half: the vector's end is read
HandlerPushBackBegin ==
  \E t \in RpcThreads :
    /\ fatal = "ok"
    /\ h[t].pc = "push_back"
    /\ h' = [h EXCEPT ![t].pc = "push_back: end", ![t].size = Len(update_buf_[RaceKey].request)]
    /\ last' = RaceMsg(t)
    /\ trace' = <<>>
    /\ UNCHANGED <<sync_mode_, multi_precision_, updater_, store_, store_realt_, update_buf_, store_v_, ENABLE_TSENGINE, fatal, nreq, exec_vars, pool_vars, le_vars>>

\* the vector after an element is stored at the end that was read
StoreAt(request, size, req_meta) == SubSeq(request, 1, IF size < Len(request) THEN size ELSE Len(request)) \o <<req_meta>>

\* push_back, second half: the element is stored and the end advanced
HandlerPushBackEnd ==
  \E t \in RpcThreads :
    /\ fatal = "ok"
    /\ h[t].pc = "push_back: end"
    /\ update_buf_' = [update_buf_ EXCEPT ![RaceKey].request = StoreAt(@, h[t].size, h[t].req_meta)]
    /\ h' = [h EXCEPT ![t].pc = "ApplyUpdates"]
    /\ last' = RaceMsg(t)
    /\ trace' = <<>>
    /\ UNCHANGED <<sync_mode_, multi_precision_, updater_, store_, store_realt_, store_v_, ENABLE_TSENGINE, fatal, nreq, exec_vars, pool_vars, le_vars>>

\* ApplyUpdates: the barrier test, and merged.WaitToRead() when it fails
HandlerBarrier ==
  \E t \in RpcThreads :
    /\ fatal = "ok"
    /\ h[t].pc = "ApplyUpdates"
    /\ IF BarrierReached(St, RaceKey)
         THEN /\ h' = [h EXCEPT ![t].pc = "exec_.Exec"]
              /\ UNCHANGED update_buf_
         ELSE /\ h' = [h EXCEPT ![t].pc = "return"]
              /\ update_buf_' = WaitMerged(St, RaceKey).update_buf_
    /\ last' = RaceMsg(t)
    /\ trace' = <<>>
    /\ UNCHANGED <<sync_mode_, multi_precision_, updater_, store_, store_realt_, store_v_, ENABLE_TSENGINE, fatal, nreq, exec_vars, pool_vars, le_vars>>

\* the values the updater was given, if it ran
Applied(tr) == IF tr # <<>> /\ tr[1].e \in {"updater", "copy"} THEN tr[1].vals ELSE <<>>

\* ApplyUpdates after the barrier test: the updater on the executor, the
\* responses of the cohort, request.clear()
HandlerApply ==
  \E t \in RpcThreads, nd \in NonDet(RaceKey) :
    /\ fatal = "ok"
    /\ h[t].pc = "exec_.Exec"
    /\ LET s == RespondCohort(RunUpdater(St, RaceType, RaceKey), RaceType, RaceKey, nd)
       IN  /\ Install(s, RaceMsg(t))
           /\ h' = [h EXCEPT ![t].pc = "return", ![t].applied = Applied(s.trace)]
    /\ UNCHANGED <<nreq, exec_vars, pool_vars, le_vars>>

InitRace ==
  /\ ServerConstructed
  /\ updater_ = TRUE
  /\ multi_precision_ = FALSE
  /\ ENABLE_TSENGINE = FALSE
  /\ ExecIdle
  /\ PoolConstructed
  /\ LeConstructed
  /\ HandlersIdle

NextRace == RaceCommand \/ RacePush \/ HandlerBegin \/ HandlerEmpty \/ HandlerMerge \/ HandlerPushBackBegin \/ HandlerPushBackEnd \/ HandlerBarrier \/ HandlerApply

SpecRace == InitRace /\ [][NextRace]_vars

\* ---------------------------------------------------------------- SpecRsp
\* Row-sparse pushes and pulls of one float16 master key, without TSEngine.
\* A request names its rows in increasing order of their ids; a push to the
\* key once it is initialised names rows inside the shape of the stored
\* tensor.
RspKey == 1
RECURSIVE Increasing(_)
Increasing(S) == IF S = {} THEN <<>> ELSE LET m == CHOOSE x \in S : \A y \in S : x <= y IN <<m>> \o Increasing(S \ {m})
RowIdLists == {Increasing(S) : S \in {T \in SUBSET (0..MaxRowId) : Cardinality(T) <= MaxRspRows}}
\* the values a push carries for the rows it names: 2, 4, 6, ... or 4 in
\* every row
RowValues(rows) == {[j \in DOMAIN rows |-> 2 * j], [j \in DOMAIN rows |-> 4]}
\* what the memory behind the storage of a tensor may hold
OutOfBounds == {0, 6}
RspNonDet(key, rows) == [eng : IF store_[key].pend # <<>> THEN BOOLEAN ELSE {FALSE}, ub : IF update_buf_[key].temp_array.view THEN BOOLEAN ELSE {FALSE}, oob : IF \E j \in DOMAIN rows : rows[j] >= Len(store_[key].cur) THEN OutOfBounds ELSE {0}]
InShape(rows) == store_[RspKey].none \/ \A j \in DOMAIN rows : rows[j] < Len(store_[RspKey].cur)

RspCommand == CommandUpTo(MaxRspReq)

RspPush ==
  /\ fatal = "ok"
  /\ nreq < MaxRspReq
  /\ \E rows \in RowIdLists : \E vals \in RowValues(rows), nd \in RspNonDet(RspKey, <<>>) :
       LET req_meta == KVMeta(nreq + 1, TRUE, FALSE, 1)
           type == DataHandleType(kRowSparsePushPull, KeyDtype(RspKey))
       IN  /\ InShape(rows)
           /\ Install(DataHandleEx(St, type, req_meta, RspKey, vals, rows, nd), Msg("push", kRowSparsePushPull, RspKey, req_meta, vals, rows))
  /\ nreq' = nreq + 1
  /\ UNCHANGED beside_srv

RspPull ==
  /\ fatal = "ok"
  /\ nreq < MaxRspReq
  /\ \E rows \in RowIdLists : \E nd \in RspNonDet(RspKey, rows) :
       LET req_meta == KVMeta(nreq + 1, FALSE, TRUE, 1)
           type == DataHandleType(kRowSparsePushPull, KeyDtype(RspKey))
       IN  Install(DataHandleEx(St, type, req_meta, RspKey, <<>>, rows, nd), Msg("pull", kRowSparsePushPull, RspKey, req_meta, <<>>, rows))
  /\ nreq' = nreq + 1
  /\ UNCHANGED beside_srv

InitRsp ==
  /\ ServerConstructed
  /\ updater_ \in BOOLEAN
  /\ multi_precision_ = FALSE
  /\ ENABLE_TSENGINE = FALSE
  /\ ExecIdle
  /\ PoolConstructed
  /\ LeConstructed
  /\ HandlersIdle

NextRsp == RspCommand \/ RspPush \/ EngineStep

SpecRsp == InitRsp /\ [][NextRsp]_vars

\* the same server when pulls arrive as well
NextRspPull == RspCommand \/ RspPush \/ RspPull \/ EngineStep

SpecRspPull == InitRsp /\ [][NextRspPull]_vars

\* --------------------------------------------------------------- SpecComp
\* Compressed pushes and pulls of one float32 key, without TSEngine.  A push
\* declares the size of the tensor it compresses and carries one word of
\* two-bit codes.
CompKey == CHOOSE k \in Keys : KeyDtype(k) = kFloat32
OriginalSizes == 1..MaxCompSize
CompPayloads == {[i \in 1..MaxCompSize |-> 1], [i \in 1..MaxCompSize |-> i % 2]}

CompCommand == CommandUpTo(MaxCompReq)

CompPush ==
  /\ fatal = "ok"
  /\ nreq < MaxCompReq
  /\ \E original_size \in OriginalSizes, vals \in CompPayloads, nd \in NonDet(CompKey) :
       LET req_meta == KVMeta(nreq + 1, TRUE, FALSE, 1)
           type == DataHandleType(kCompressedPushPull, KeyDtype(CompKey))
       IN  Install(DataHandleCompressed(St, type, req_meta, original_size, CompKey, vals, nd), Msg("push", kCompressedPushPull, CompKey, req_meta, vals, <<original_size>>))
  /\ nreq' = nreq + 1
  /\ UNCHANGED beside_srv

CompPull == PullUpTo(MaxCompReq, {CompKey}, {kCompressedPushPull})

InitComp ==
  /\ ServerConstructed
  /\ updater_ \in BOOLEAN
  /\ multi_precision_ = FALSE
  /\ ENABLE_TSENGINE = FALSE
  /\ ExecIdle
  /\ PoolConstructed
  /\ LeConstructed
  /\ HandlersIdle

NextComp == CompCommand \/ CompPush \/ CompPull

SpecComp == InitComp /\ [][NextComp]_vars

\* ------------------------------------------------------- reading a step
\* The message the latest step delivered and what its handler sent.
IsUpdate(ev) == ev.e \in {"updater", "copy"}
IsAck(ev) == ev.e = "Response"
IsData(ev) == ev.e = "ResponseKV"
IsResponse(ev) == IsAck(ev) \/ IsData(ev)
Indices(tr, e) == {i \in DOMAIN tr : tr[i].e \in e}
Updates(tr) == Indices(tr, {"updater", "copy"})
Responses(tr) == Indices(tr, {"Response", "ResponseKV"})
Timestamps(request) == {request[i].timestamp : i \in DOMAIN request}
\* the key holds a value for requests of its dtype
IsInit(key) == ~Stored(St, DataHandleType(kDefaultPushPull, KeyDtype(key)), key).none
Pending(key) == update_buf_[key].request

\* ------------------------------------------------------------------ claims
\* C1: in sync mode the optimizer (or the copy used without one) is applied
\* exactly once per cohort of NumWorkers pushes to an initialised key: not
\* while fewer pushes have arrived, and when the NumWorkers-th arrives, after
\* which the pending list is empty.  A push that the transport merged from
\* num_merge pushes counts num_merge times.
C1_Arrived == Len(Pending(last'.key)) + last'.meta.num_merge
C1_Step ==
  (last'.kind = "push" /\ sync_mode_ /\ IsInit(last'.key)) =>
     /\ C1_Arrived < NumWorkers => Updates(trace') = {}
     /\ C1_Arrived >= NumWorkers => Cardinality(Updates(trace')) = 1 /\ update_buf_'[last'.key].request = <<>>
C1_OncePerCohort == [][C1_Step]_vars

\* C2: at every instant at most one optimizer or controller callback is
\* executing, and it executes on the thread that called Start, however many
\* RPC threads are inside Exec and whichever handler submitted the closure.
C2_SerialExecutor ==
  /\ Cardinality(running) <= 1
  /\ \A c \in running : c.thread = ExecutorThread /\ c.f = blk.f /\ c.f \in Closures /\ exec_pc = "blk.f"
\* a callback is executing while another thread's closure waits in the queue
C2_Witness == \E c \in running : queue_ # <<>> /\ \A i \in DOMAIN queue_ : queue_[i].f # c.f /\ queue_[i].f # NoFunc

\* C3: in sync mode without TSEngine a push to an initialised key that does
\* not complete the cohort is queued and nothing is sent in answer; a queued
\* push is answered only in the step of the push that completes its cohort,
\* and after the optimizer (or the copy) has been applied in that step.
C3_Step ==
  LET k == last'.key
  IN  /\ (last'.kind = "push" /\ sync_mode_ /\ ~ENABLE_TSENGINE /\ IsInit(k) /\ Len(Pending(k)) + 1 < NumWorkers) =>
           /\ Responses(trace') = {}
           /\ update_buf_'[k].request = Append(Pending(k), last'.meta)
      /\ \A key \in Keys : \A i \in Responses(trace') :
           (sync_mode_ /\ ~ENABLE_TSENGINE /\ trace'[i].timestamp \in Timestamps(Pending(key))) =>
              /\ last'.kind = "push"
              /\ last'.key = key
              /\ Len(Pending(key)) + 1 = NumWorkers
              /\ \E j \in Updates(trace') : j < i
C3_DeferredResponse == [][C3_Step]_vars
\* the completing push: an update, then the answer to an earlier push
C3_Witness ==
  /\ last.kind = "push" /\ sync_mode_ /\ ~ENABLE_TSENGINE
  /\ \E i \in Updates(trace), j \in Responses(trace) : i < j /\ trace[j].timestamp < last.meta.timestamp

\* C4: when a sync cohort completes (TSEngine disabled) every request of the
\* cohort gets exactly one response before the pending list is cleared: the
\* bytes of the primary if it wanted a pull, a plain acknowledgement if it
\* was push-only, also in a cohort that mixes the two.
C4_Step ==
  LET k == last'.key
      cohort == Append(Pending(k), last'.meta)
      Answers(m) == {i \in Responses(trace') : trace'[i].timestamp = m.timestamp}
  IN  (last'.kind = "push" /\ sync_mode_ /\ ~ENABLE_TSENGINE /\ IsInit(k) /\ Len(cohort) = NumWorkers) =>
         /\ update_buf_'[k].request = <<>>
         /\ \A r \in DOMAIN cohort :
              /\ Cardinality(Answers(cohort[r])) = 1
              /\ \A i \in Answers(cohort[r]) :
                   IF cohort[r].pull THEN IsData(trace'[i]) /\ trace'[i].vals = Logical(store_'[k]) ELSE IsAck(trace'[i])
C4_EveryHandleAnswered == [][C4_Step]_vars

\* C5: each application of the optimizer to a key (each completed barrier in
\* sync mode, each update in async mode) raises the version of that key by
\* exactly one, in every delivery mode.
C5_UpdatesOf(tr, k) == {i \in Updates(tr) : tr[i].key = k}
C5_Step == \A k \in Keys : store_v_'[k] = store_v_[k] + Cardinality(C5_UpdatesOf(trace', k))
C6_Step ==
  \A k \in Keys :
    /\ store_v_'[k] >= store_v_[k]
    /\ \A i \in DOMAIN trace' :
         (trace'[i].e = "AutoPullUpdate" /\ trace'[i].key = k) => trace'[i].version = store_v_'[k] /\ trace'[i].version >= store_v_[k]
C6_VersionMonotone == [][C6_Step]_vars
C6_Witness == \E i \in DOMAIN trace : trace[i].e = "AutoPullUpdate" /\ trace[i].version = 2 /\ last.kind = "push"

\* C7: in sync mode every pull response sent when a cohort completes carries
\* the primary as it is after the optimizer was applied to the merged buffer
\* of that cohort, never the value before, so all pull requesters of the
\* cohort get the same bytes.  The merged buffer is the sum of the pushes of
\* the cohort unless temp_array still wraps the memory of an earlier request.
C7_Step ==
  LET k == last'.key
      stored == Stored(St, DataHandleType(kDefaultPushPull, KeyDtype(k)), k)
      pushes == IF Pending(k) = <<>> THEN last'.vals ELSE Plus(Logical(update_buf_[k].merged), last'.vals)
  IN  (last'.kind = "push" /\ sync_mode_ /\ IsInit(k) /\ Updates(trace') # {}) =>
         \A u \in Updates(trace') :
           LET merged == trace'[u].vals
               after == Cast(IF trace'[u].e = "updater" THEN Sgd(Logical(stored), merged) ELSE merged, stored.dtype)
               primary == Cast(after, KeyDtype(k))
           IN  /\ trace'[u].e = "updater" <=> updater_
               /\ ~update_buf_[k].temp_array.view => merged = pushes
               /\ Logical(store_'[k]) = primary
               /\ \A i \in DOMAIN trace' :
                    trace'[i].e \in {"ResponseKV", "AutoPullUpdate"} => u < i /\ trace'[i].vals = primary
C7_PullAfterUpdate == [][C7_Step]_vars
\* a cohort of pulls completes: every requester gets the updated bytes
C7_Witness ==
  /\ last.kind = "push" /\ sync_mode_ /\ updater_ /\ Updates(trace) # {}
  /\ Cardinality(Indices(trace, {"ResponseKV"})) = NumWorkers
  /\ \A i \in Indices(trace, {"ResponseKV"}) : trace[i].vals = store_[last.key].cur

\* C8: in mixed-precision mode, for a key whose dtype is not float32, every
\* pull response carries the cast of the float32 master copy as it is when
\* the response is serialised: no update applied to the master is missing.
C8_Step ==
  \A i \in DOMAIN trace' :
    (multi_precision_' /\ trace'[i].e \in {"ResponseKV", "AutoPullUpdate"} /\ KeyDtype(trace'[i].key) # kFloat32 /\ trace'[i].vals # <<>>) =>
       LET k == trace'[i].key
       IN  /\ ~store_realt_'[k].none
           /\ Logical(store_'[k]) = Cast(Logical(store_realt_'[k]), KeyDtype(k))
           /\ \A j \in DOMAIN trace'[i].vals : trace'[i].vals[j] = CastElem(Logical(store_realt_'[k])[1], KeyDtype(k))
C8_PrimaryIsCastOfMaster == [][C8_Step]_vars
\* a pull that arrives after a push-only update whose result float16 cannot hold
C8_Witness ==
  /\ multi_precision_ /\ last.kind = "pull" /\ KeyDtype(last.key) # kFloat32
  /\ \E i \in DOMAIN trace : IsData(trace[i]) /\ trace[i].vals # <<>> /\ trace[i].vals # Logical(store_realt_[last.key])

\* C9: the first dense push of a key, in sync or async mode, creates the
\* primary equal to the payload, is acknowledged exactly once, applies no
\* optimizer and leaves the pending list as it was; a dense pull returns the
\* primary and leaves it unchanged, and nothing but a push changes it, so
\* every pull before the next push returns that payload.
C9_Step ==
  LET k == last'.key
  IN  /\ (last'.kind = "push" /\ ~IsInit(k)) =>
           /\ fatal' = "ok"
           /\ ~store_'[k].none /\ Logical(store_'[k]) = last'.vals
           /\ Cardinality(Indices(trace', {"Response"})) = 1
           /\ \A i \in Indices(trace', {"Response"}) : trace'[i].timestamp = last'.meta.timestamp
           /\ Updates(trace') = {}
           /\ update_buf_'[k] = update_buf_[k]
      /\ (last'.kind = "pull" /\ last'.requestType = kDefaultPushPull /\ ~store_[k].none) =>
           /\ Cardinality(Indices(trace', {"ResponseKV"})) = 1
           /\ \A i \in Indices(trace', {"ResponseKV"}) : trace'[i].vals = Logical(store_[k])
      /\ last'.kind # "push" => \A key \in Keys : store_'[key].none = store_[key].none /\ Logical(store_'[key]) = Logical(store_[key])
C9_FirstPush == [][C9_Step]_vars
\* the pull that follows the first push of <<4>> returns <<4>>
C9_Witness ==
  /\ last.kind = "pull" /\ nreq = 2 /\ update_buf_[last.key] = EmptyUpdateBuf
  /\ \E i \in DOMAIN trace : IsData(trace[i]) /\ trace[i].vals = <<4>>

\* C10: a pull (dense, compressed or row-sparse with any number of rows) for
\* a key whose primary was never created fails with NotInitialized: no data
\* response is sent and no primary is created.
C10_Refused == fatal' = "NotInitialized" /\ trace' = <<>> /\ store_'[last'.key].none
C10_Step == (last'.kind = "pull" /\ store_[last'.key].none) => C10_Refused
C10_PullBeforeInit == [][C10_Step]_vars
\* C10 as it holds: a dense or compressed pull, or a row-sparse pull of at
\* least one row, for a key without primary fails with NotInitialized, sends
\* nothing and creates nothing; a row-sparse pull of no rows is answered with
\* an empty response.
C10_Checked == last'.requestType \in {kDefaultPushPull, kCompressedPushPull} \/ Len(last'.rows) >= 1
C10_StepChecked ==
  (last'.kind = "pull" /\ store_[last'.key].none) =>
     IF C10_Checked THEN C10_Refused
     ELSE fatal' = "ok" /\ store_'[last'.key].none /\ Len(trace') = 1 /\ IsData(trace'[1]) /\ trace'[1].vals = <<>>
C10_PullBeforeInitChecked == [][C10_StepChecked]_vars
C10_Witness == fatal = "NotInitialized" /\ last.kind = "pull" /\ last.requestType = kRowSparsePushPull /\ store_[last.key].none

\* C11: a kSetMultiPrecision command that arrives while the pending list of
\* any key, of whatever dtype, is not empty fails with ConfigurationRace
\* instead of completing.
C11_Step == (last'.kind = kSetMultiPrecision /\ \E k \in Keys : Pending(k) # <<>>) => fatal' = "ConfigurationRace"
C11_Races == ~multi_precision_ /\ \E k \in Keys : Pending(k) # <<>> /\ ~store_[k].none /\ store_[k].dtype # kFloat32
C11_StepChecked ==
  last'.kind = kSetMultiPrecision =>
     IF C11_Races THEN fatal' = "ConfigurationRace" /\ trace' = <<>>
     ELSE fatal' = "ok" /\ multi_precision_' /\ Len(trace') = 1 /\ trace'[1].e = kSetMultiPrecision
C12_Outstanding(t) == (\E i \in DOMAIN queue_ : queue_[i].p = t) \/ (blk.p = t /\ exec_pc \in {"unlocked", "blk.f", "set_value"})
C12_Stuck == \E t \in RpcThreads : cmd[t] # "none" /\ exec_pc = "returned" /\ \E i \in DOMAIN queue_ : queue_[i].p = t
C12_Step ==
  /\ \A t \in RpcThreads :
       /\ (rpc_pc[t] = "Response" /\ rpc_pc'[t] = "idle") => cmd[t] # "none" /\ cmd'[t] = "none" /\ ~C12_Outstanding(t)
       /\ (cmd[t] # "none" /\ cmd'[t] = "none") => rpc_pc[t] = "Response" /\ rpc_pc'[t] = "idle"
  /\ ~C12_Stuck'
C12_EveryCommandAcked == [][C12_Step]_vars

\* C13: Stop is idempotent: a Stop called after an earlier Stop has made the
\* thread of Start return leaves the executor as it was and returns.
C13_Step ==
  \A t \in RpcThreads :
    (exec_pc = "returned" /\ cmd[t] = "none" /\ cmd'[t] = kStopServer) =>
       /\ queue_' = queue_
       /\ rpc_pc'[t] = "fut.wait" => t \in done'
C13_StopIdempotent == [][C13_Step]_vars

\* C14: the executor runs the submitted closures one at a time in the order
\* they were queued; a thread is out of Exec only when its own block has been
\* served; and the thread of Start returns, on the empty Func, only when every
\* block queued before it has been served.
C14_InProcess == exec_pc \in {"unlocked", "blk.f", "set_value"}
C14_SerialFifo ==
  LET n == IF C14_InProcess THEN 1 ELSE 0
  IN  /\ Cardinality(running) <= 1
      /\ running # {} => exec_pc = "blk.f"
      /\ C14_InProcess => blk.seq = served + 1
      /\ \A i \in DOMAIN queue_ : queue_[i].seq = served + n + i
      /\ tickets = served + n + Len(queue_)
      /\ \A t \in RpcThreads :
           rpc_pc[t] # "fut.wait" => t \notin done /\ ~(C14_InProcess /\ blk.p = t) /\ \A i \in DOMAIN queue_ : queue_[i].p # t
      /\ exec_pc = "returned" => blk.f = NoFunc /\ blk.seq = served /\ running = {}
\* the thread of Start has returned on a poison that two closures preceded
C14_Witness == exec_pc = "returned" /\ blk.seq = 3 /\ served = 3

\* C15: an enqueue on the pool while stop is set throws (PoolStopped) and leaves
\* tasks as it was; a task whose enqueue threw is never in tasks, never taken
\* by a worker and never run.
C15_InTasks(t) == \E i \in DOMAIN tasks : tasks[i] = t
C15_Taken(t) == \E w \in DOMAIN workers : workers[w].task = t
C15_Ran(t) == \E i \in DOMAIN ran : ran[i] = t
C15_Step == \A t \in 1..MaxTasks : /\ (stop /\ res[t] = "none" /\ res'[t] # "none") => (res'[t] = "runtime_error" /\ tasks' = tasks)
                                   /\ res'[t] = "runtime_error" => ~C15_InTasks(t)' /\ ~C15_Taken(t)' /\ ~C15_Ran(t)'
C15_EnqueueAfterStop == [][C15_Step]_vars
C15_Witness == pool_pc = "stopped" /\ (\E t \in 1..MaxTasks : res[t] = "runtime_error") /\ (\E t \in 1..MaxTasks : res[t] = "future" /\ C15_Ran(t))

\* C17: with TSEngine a dense push is acknowledged once, by the first event of
\* its handler and so before its values are merged or applied, and no other
\* handler acknowledges anything; the first push of a key and every push whose
\* handler applies an update send exactly one auto-pull, after the update,
\* that carries the version of the key after the step (0 for the first push)
\* and the values store_[key] holds after the step; no other step sends one.
C17_AutoPulls(tr) == Indices(tr, {"AutoPullUpdate"})
C17_PushStep ==
  LET k == last'.key
      tr == trace'
      ts == last'.meta.timestamp
      ap == C17_AutoPulls(tr)
      up == Updates(tr)
  IN  /\ tr # <<>> /\ IsAck(tr[1]) /\ tr[1].timestamp = ts /\ tr[1].key = k
      /\ Responses(tr) = {1}
      /\ Cardinality(ap) <= 1 /\ Cardinality(up) <= 1
      /\ \A i \in ap : /\ tr[i].key = k /\ tr[i].timestamp = ts
                        /\ tr[i].version = store_v_'[k]
                        /\ tr[i].vals = store_'[k].cur /\ store_'[k].pend = <<>>
                        /\ \A j \in up : j < i
      /\ ~IsInit(k) => Cardinality(ap) = 1 /\ up = {} /\ store_v_'[k] = 0 /\ store_'[k].cur = Cast(last'.vals, KeyDtype(k))
      /\ up # {} => Cardinality(ap) = 1 /\ store_v_'[k] = store_v_[k] + 1
      /\ (IsInit(k) /\ up = {}) => ap = {}
C17_Step == ENABLE_TSENGINE => IF last'.kind = "push" THEN C17_PushStep ELSE \A i \in DOMAIN trace' : ~IsAck(trace'[i]) /\ trace'[i].e # "AutoPullUpdate"
C17_AckAndAutoPull == [][C17_Step]_vars
C17_Witness == ENABLE_TSENGINE /\ sync_mode_ /\ last.kind = "push" /\ Updates(trace) # {} /\ C17_AutoPulls(trace) # {} /\ store_v_[last.key] = 1 /\ last.meta.num_merge = 1

\* C19: in sync mode the values the merged buffer of a key holds after a
\* dense push are the values of that push when no request is pending (the
\* first push of a cohort overwrites what the previous cohort left) and the
\* sum of what it held and the values of that push otherwise; what the
\* optimizer consumes when the push completes the cohort is that value; and
\* no other request changes the merged buffer of a pending cohort.  So the buffer consumed at the
\* barrier is the sum of the payloads of the cohort in every arrival order.
C19_Sum == IF Pending(last'.key) = <<>> THEN last'.vals ELSE Plus(Logical(update_buf_[last'.key].merged), last'.vals)
C19_Step ==
  /\ (last'.kind = "push" /\ sync_mode_ /\ IsInit(last'.key) /\ fatal' = "ok") =>
        LET k == last'.key
        IN  /\ Logical(update_buf_'[k].merged) = C19_Sum
            /\ \A u \in Updates(trace') : trace'[u].vals = C19_Sum
            /\ \A j \in Keys \ {k} : update_buf_'[j].merged = update_buf_[j].merged
  /\ (last'.kind # "push" /\ sync_mode_ /\ fatal' = "ok") => \A k \in Keys : Pending(k) # <<>> => Logical(update_buf_'[k].merged) = Logical(update_buf_[k].merged)
C19_MergedIsSum == [][C19_Step]_vars

\* C16: with LeMethod a row-sparse or compressed request fails with
\* UnsupportedMode and changes nothing of the store, the update buffers, the
\* aggregation counter or the pool's queue; a dense push or pull is not
\* dropped: its handler sends something, changes the store or the buffers,
\* enqueues a task, or fails with an error of its own.
C16_StoreUnchanged == store_' = store_ /\ store_realt_' = store_realt_ /\ update_buf_' = update_buf_ /\ store_v_' = store_v_ /\ num_aggregation_' = num_aggregation_ /\ tasks' = tasks
C16_Dropped == fatal' = "ok" /\ trace' = <<>> /\ C16_StoreUnchanged
C16_Step == last'.kind \in {"push", "pull"} => IF last'.requestType # kDefaultPushPull THEN fatal' = "UnsupportedMode" /\ trace' = <<>> /\ C16_StoreUnchanged ELSE ~C16_Dropped
C16_LeMethodDispatch == [][C16_Step]_vars

\* C18: the calls of one model-distribution pass are GetModelReceiver, Send,
\* WaitForModelDistributionReply, in that order and repeated, so each reply is
\* awaited before the oracle is asked again; each Send goes to the receiver
\* the oracle has just named and carries the key, the values and the
\* timestamp bound to the task and the version iteration_; QUIT is the last
\* call of the pass and ends it at once, so m receivers before QUIT give
\* exactly m messages.  iteration_ is the number of passes begun, the passes
\* of INIT requests included, and passes run in the order of their enqueue.
C18_Op(i) == CASE i % 3 = 1 -> "GetModelReceiver" [] i % 3 = 2 -> "Send" [] OTHER -> "WaitForModelDistributionReply"
C18_Msg == Message(kvs[md.task].reqMeta.timestamp, kvs[md.task].key, iteration_, kvs[md.task].vals)
C18_PassInOrder ==
  LET n == Len(pass)
  IN  /\ \A i \in 1..n : pass[i].op = C18_Op(i)
      /\ \A i \in 1..n : pass[i].op = "Send" => pass[i].recver = pass[i - 1].receiver /\ pass[i].recver \in Peers /\ pass[i].msg = C18_Msg
      /\ \A i \in 1..n : pass[i].op = "GetModelReceiver" => pass[i].iteration = iteration_ /\ (pass[i].receiver = QUIT => i = n /\ md.pc = "idle")
      /\ (md.pc = "idle" /\ n > 0) => pass[n].op = "GetModelReceiver" /\ pass[n].receiver = QUIT
      /\ md.pc = "idle" => (n = 0 <=> iteration_ = 0)
      /\ md.pc # "idle" => C18_Op(n + 1) = md.pc
      /\ iteration_ > 0 => md.task = iteration_
      /\ iteration_ = Len(ran) + (IF md.pc = "idle" THEN 0 ELSE 1)
C18_IsBarrier(t) == kvs[t].reqMeta.control_cmd = LOCAL_AGGREGATION
\* the statement with its last sentence: the pass of the first barrier that
\* completed has version 1
C18_FirstBarrierIsOne == C18_PassInOrder /\ ((iteration_ > 0 /\ C18_IsBarrier(md.task) /\ \A t \in 1..(md.task - 1) : ~C18_IsBarrier(t)) => md.msg.version = 1)
C18_Witness ==
  /\ md.pc = "idle" /\ iteration_ = 2 /\ kvs[1].reqMeta.control_cmd = INIT /\ C18_IsBarrier(2)
  /\ Len(pass) = 7 /\ pass[2].recver = "A" /\ pass[5].recver = "B" /\ pass[2].msg.version = 2 /\ pass[5].msg = pass[2].msg

\* C20: when NumWorkers pushes of one key have been handled by RPC threads
\* whose statements interleaved, pending held each of them until the barrier,
\* exactly one of the calls applied the optimizer, to the sum of all their
\* values, and pending is empty again.
C20_Done == {t \in RpcThreads : h[t].pc = "return"}
C20_Appliers == {t \in C20_Done : h[t].applied # <<>>}
C20_Sum == LET RECURSIVE Add(_) Add(T) == IF T = {} THEN <<0>> ELSE LET t == CHOOSE u \in T : TRUE IN Plus(h[t].vals, Add(T \ {t})) IN Add(C20_Done)
C20_Registered == {t \in RpcThreads : h[t].pc \in {"ApplyUpdates", "exec_.Exec"}}
C20_BarrierUnderInterleaving ==
  /\ (C20_Done = {} /\ Cardinality(C20_Registered) <= NumWorkers) => Timestamps(Pending(RaceKey)) = {h[t].req_meta.timestamp : t \in C20_Registered}
  /\ Cardinality(C20_Done) = NumWorkers => /\ Cardinality(C20_Appliers) = 1
                                           /\ \A t \in C20_Appliers : h[t].applied = C20_Sum
                                           /\ Pending(RaceKey) = <<>>

\* C21: a task whose enqueue returned a future is, at every moment, in
\* exactly one place: in tasks, taken by one worker, or run once; when the
\* workers of a stopped pool have all returned, tasks is empty, so each such
\* task has run exactly once; and once stop is set every worker returns, so
\* that the join of Stop() returns.
C21_Count(t) == Cardinality({i \in DOMAIN tasks : tasks[i] = t}) + Cardinality({w \in DOMAIN workers : workers[w].task = t}) + Cardinality({i \in DOMAIN ran : ran[i] = t})
C21_Once == \A t \in 1..MaxTasks : C21_Count(t) = IF res[t] = "future" THEN 1 ELSE 0
C21_Drained == (stop /\ Joinable) => /\ tasks = <<>>
                                     /\ \A t \in 1..MaxTasks : res[t] = "future" => Cardinality({i \in DOMAIN ran : ran[i] = t}) = 1
C21_StopDrainsAndReturns == /\ [](C21_Once /\ C21_Drained)
                            /\ (stop ~> Joinable)
                            /\ ((pool_pc = "Stop: join") ~> (pool_pc = "stopped"))
C21_Witness == pool_pc = "Stop: join" /\ Len(tasks) >= 2 /\ \E w \in DOMAIN workers : workers[w].pc = "condition.wait"

\* C22: in a model-distribution pass the first call of the oracle gets UNKNOWN
\* for lastBandwidth and for lastReceiver; each later call gets as
\* lastReceiver the node of the Send before it, and as lastBandwidth the
\* clock reading before that Send minus the reading after its reply, in whole
\* microseconds: a value that is never positive, and negative when the round
\* trip took a microsecond or more.
C22_Calls == {i \in DOMAIN pass : pass[i].op = "GetModelReceiver"}
C22_Later == {i \in C22_Calls : i > 3}
C22_Long(rt) == rt.us > 0 \/ rt.more > 0
C22_Exact(i) == pass[i - 1].rt.more - 1 <= INT_MAX - pass[i - 1].rt.us /\ pass[i].lastBandwidth = (0 - pass[i - 1].rt.us) - pass[i - 1].rt.more
C22_First == \A i \in C22_Calls : i < 3 => i = 1 /\ pass[i].lastBandwidth = UNKNOWN /\ pass[i].lastReceiver = UNKNOWN
C22_Receiver == \A i \in C22_Later : pass[i - 2].op = "Send" /\ pass[i].lastReceiver = pass[i - 2].recver
C22_Sign == \A i \in C22_Later : pass[i].lastBandwidth <= 0 /\ (C22_Long(pass[i - 1].rt) => pass[i].lastBandwidth < 0)
C22_OracleArguments == C22_First /\ C22_Receiver /\ C22_Sign /\ \A i \in C22_Later : C22_Exact(i)

\* C23: a LOCAL_AGGREGATION message adds its num_aggregation to the counter.
\* When the sum is NumWorkers and sync mode is set, the handler notifies the
\* van that one iteration finished, once, sets the counter to 0 and enqueues
\* one ModelDistribution task; when the sum is NumWorkers and sync mode is not
\* set it fails with UnsupportedMode and does none of the three; for any
\* other sum it does none of the three and keeps the sum.  No other request
\* changes the counter or notifies the van.
C23_Notices(tr) == Indices(tr, {"NoticeWorkersOneIterationFinish"})
C23_IsLocalAggregation == last'.kind \in {"push", "pull"} /\ last'.requestType = kDefaultPushPull /\ last'.meta.control_cmd = LOCAL_AGGREGATION
C23_n == num_aggregation_ + last'.meta.num_aggregation
C23_Barrier == /\ fatal' = "ok"
               /\ Cardinality(C23_Notices(trace')) = 1
               /\ num_aggregation_' = 0
               /\ Len(tasks') = Len(tasks) + 1 /\ SubSeq(tasks', 1, Len(tasks)) = tasks
               /\ kvs'[tasks'[Len(tasks')]].reqMeta = last'.meta
C23_None == C23_Notices(trace') = {} /\ tasks' = tasks /\ kvs' = kvs /\ num_aggregation_' = C23_n
C23_Other == C23_Notices(trace') = {} /\ num_aggregation_' = num_aggregation_
C23_Step ==
  IF ~C23_IsLocalAggregation THEN C23_Other
  ELSE IF C23_n # NumWorkers THEN C23_None /\ fatal' = "ok"
  ELSE IF sync_mode_ THEN C23_Barrier
  ELSE C23_None /\ fatal' = "UnsupportedMode"
C23_CounterBarrier == [][C23_Step]_vars
\* the statement as it stands: the sum NumWorkers alone triggers the three
C23_StepAsStated == IF ~C23_IsLocalAggregation THEN C23_Other ELSE IF C23_n # NumWorkers THEN C23_None /\ fatal' = "ok" ELSE C23_Barrier
C23_CounterAloneTriggers == [][C23_StepAsStated]_vars
C23_Witness == /\ last.kind = "push" /\ last.meta.control_cmd = LOCAL_AGGREGATION /\ last.meta.num_aggregation = 1
               /\ C23_Notices(trace) # {} /\ num_aggregation_ = 0 /\ tasks # <<>> /\ kvs[tasks[Len(tasks)]].reqMeta = last.meta

\* C24: a step enqueues at most one ModelDistribution task, bound to the
\* request of that step, and it does so in exactly two cases: a
\* LOCAL_AGGREGATION message that brings the counter to NumWorkers while sync
\* mode is set, and a dense request marked INIT that DataHandleDefault has
\* handled without failing, whether sync mode is set or not.
C24_Enqueued == tasks' # tasks
C24_Dense == last'.kind \in {"push", "pull"} /\ last'.requestType = kDefaultPushPull
C24_AfterBarrier == C24_Dense /\ last'.meta.control_cmd = LOCAL_AGGREGATION /\ sync_mode_ /\ C23_n = NumWorkers
C24_AfterInit == C24_Dense /\ last'.meta.control_cmd = INIT /\ fatal' = "ok"
C24_Step == /\ C24_Enqueued <=> (C24_AfterBarrier \/ C24_AfterInit)
            /\ C24_Enqueued => Len(tasks') = Len(tasks) + 1 /\ SubSeq(tasks', 1, Len(tasks)) = tasks /\ kvs'[tasks'[Len(tasks')]].reqMeta = last'.meta
C24_EnqueueCauses == [][C24_Step]_vars
\* the statement as it stands: only a completed sync-mode barrier enqueues
C24_OnlyBarrierEnqueues == [][C24_Enqueued => C24_AfterBarrier]_vars
C24_Witness == /\ ~sync_mode_ /\ last.kind = "push" /\ last.meta.control_cmd = INIT /\ fatal = "ok"
               /\ tasks # <<>> /\ kvs[tasks[Len(tasks)]].reqMeta = last.meta /\ kvs[tasks[Len(tasks)]].vals = store_[last.key].cur

\* C25: a row-sparse push without rows to a key that is initialised.  In
\* sync mode it is appended to the pending list and counts as one push of the
\* cohort; the merged buffer keeps its value, or is all zeros when the
\* pending list was empty; nothing is sent until the cohort is complete, and
\* the push that completes it has the optimizer (or the copy) applied to the
\* merged buffer and every request of the cohort answered once.  In async
\* mode the push is acknowledged at once, the optimizer is not run, and the
\* store, the pending list and the merged buffer stay as they were; of the
\* update buffer only the float32 staging tensor may change, from absent to
\* allocated, when the key has a master copy.
C25_IsEmptyPush == last'.kind = "push" /\ last'.requestType = kRowSparsePushPull /\ last'.rows = <<>> /\ ~store_[last'.key].none
C25_Merged == IF Pending(last'.key) = <<>> THEN Zeros(store_[last'.key].cur) ELSE Logical(update_buf_[last'.key].merged)
C25_Cohort == Append(Pending(last'.key), last'.meta)
C25_Sync ==
  LET k == last'.key
      tr == trace'
  IN  /\ fatal' = "ok"
      /\ Logical(update_buf_'[k].merged) = C25_Merged
      /\ IF Len(C25_Cohort) < NumWorkers
           THEN /\ update_buf_'[k].request = C25_Cohort
                /\ tr = <<>>
                /\ store_' = store_ /\ store_realt_' = store_realt_
           ELSE /\ update_buf_'[k].request = <<>>
                /\ Cardinality(Updates(tr)) = 1
                /\ \A i \in Updates(tr) : tr[i].vals = C25_Merged /\ \A j \in Responses(tr) : i < j
                /\ {tr[j].timestamp : j \in Responses(tr)} = Timestamps(C25_Cohort)
                /\ Cardinality(Responses(tr)) = NumWorkers
C25_TempArray(k) ==
  IF multi_precision_ /\ KeyDtype(k) # kFloat32 /\ update_buf_[k].temp_array.none
    THEN ~update_buf_'[k].temp_array.none
    ELSE update_buf_'[k].temp_array = update_buf_[k].temp_array
C25_Async ==
  LET k == last'.key
  IN  /\ fatal' = "ok"
      /\ Len(trace') = 1 /\ IsAck(trace'[1]) /\ trace'[1].timestamp = last'.meta.timestamp
      /\ store_' = store_ /\ store_realt_' = store_realt_
      /\ update_buf_'[k].request = update_buf_[k].request
      /\ update_buf_'[k].merged = update_buf_[k].merged
      /\ C25_TempArray(k)
C25_Step == C25_IsEmptyPush => IF sync_mode_ THEN C25_Sync ELSE C25_Async
C26_AfterInit ==
  /\ fatal = "ok" /\ last.kind = "push" /\ last.requestType = kRowSparsePushPull /\ last.rows # <<>>
  /\ ~store_[last.key].none /\ update_buf_[last.key] = EmptyUpdateBuf
C26_IsPull == last'.kind = "pull" /\ last'.requestType = kRowSparsePushPull /\ last'.key = last.key /\ last'.rows # <<>>
C26_Pushed(row_id) == IF \E j \in DOMAIN last.rows : last.rows[j] = row_id THEN last.vals[CHOOSE j \in DOMAIN last.rows : last.rows[j] = row_id] ELSE 0
C26_Answer ==
  /\ fatal' = "ok"
  /\ Len(trace') = 1 /\ IsData(trace'[1]) /\ trace'[1].timestamp = last'.meta.timestamp
  /\ trace'[1].vals = [i \in DOMAIN last'.rows |-> C26_Pushed(last'.rows[i])]
  /\ trace'[1].lens = <<0>> \o [i \in DOMAIN last'.rows |-> 1]
C26_RowsByRowId == [][(C26_AfterInit /\ C26_IsPull) => C26_Answer]_vars

\* C27: a compressed push to an initialised key whose declared size (the
\* first key of the request) is not the size of the stored tensor fails with
\* MalformedRequest and leaves the stored tensor, the merge buffer and the
\* pending requests of the key as they were.
C27_IsMismatched ==
  /\ last'.kind = "push" /\ last'.requestType = kCompressedPushPull
  /\ ~store_[last'.key].none
  /\ last'.rows[1] # Len(Logical(store_[last'.key]))
C27_Refused == fatal' = "MalformedRequest" /\ store_' = store_ /\ update_buf_' = update_buf_
C27_Step == C27_IsMismatched => C27_Refused
C27_MismatchedSizeRefused == [][C27_Step]_vars

\* C28: without an optimizer, a dense push to an initialised key in sync
\* mode adds its tensor to the merged buffer (the first push of a cohort
\* overwrites it), and the push that completes the cohort copies the merged
\* buffer, the sum of the tensors of the cohort, into the stored value: into
\* the float32 master copy and from there into the primary under multi
\* precision, into the primary otherwise; a push that does not complete the
\* cohort leaves the stored values alone.  In async mode the push fails with
\* UnsupportedMode and the primary is not modified.
C28_IsPush == last'.kind = "push" /\ last'.requestType = kDefaultPushPull /\ IsInit(last'.key) /\ ~updater_
C28_Sum == IF Pending(last'.key) = <<>> THEN last'.vals ELSE Plus(Logical(update_buf_[last'.key].merged), last'.vals)
C28_Completes == Len(Pending(last'.key)) + (IF ENABLE_TSENGINE THEN last'.meta.num_merge ELSE 1) = NumWorkers
C28_Sync ==
  LET k == last'.key
      type == DataHandleType(kDefaultPushPull, KeyDtype(k))
  IN  /\ fatal' = "ok"
      /\ Logical(update_buf_'[k].merged) = C28_Sum
      /\ IF C28_Completes
         THEN /\ Cardinality(Updates(trace')) = 1
              /\ \A i \in Updates(trace') : trace'[i].e = "copy" /\ trace'[i].vals = C28_Sum
              /\ has_multi_precision_copy(St, type) => Logical(store_realt_'[k]) = C28_Sum
              /\ Logical(store_'[k]) = Cast(C28_Sum, KeyDtype(k))
              /\ update_buf_'[k].request = <<>>
         ELSE /\ Updates(trace') = {}
              /\ Logical(store_'[k]) = Logical(store_[k])
              /\ store_realt_'[k] = store_realt_[k]
      /\ \A j \in Keys \ {k} : store_'[j] = store_[j] /\ store_realt_'[j] = store_realt_[j]
C28_Async == fatal' = "UnsupportedMode" /\ store_' = store_ /\ Updates(trace') = {}
C28_Step ==
  /\ C28_IsPush => IF sync_mode_ THEN C28_Sync ELSE C28_Async
  /\ (last'.kind # "push" /\ ~updater_ /\ sync_mode_ /\ fatal' = "ok") =>
        \A k \in Keys : Pending(k) # <<>> => Logical(update_buf_'[k].merged) = Logical(update_buf_[k].merged)
C28_CopyWithoutOptimizer == [][C28_Step]_vars
\* a cohort of NumWorkers pushes to a float16 key with a master copy has
\* been copied into both
C28_Witness ==
  /\ ~updater_ /\ sync_mode_ /\ ~ENABLE_TSENGINE /\ last.kind = "push"
  /\ has_multi_precision_copy(St, DataHandleType(kDefaultPushPull, KeyDtype(last.key)))
  /\ \E i \in Updates(trace) : trace[i].e = "copy" /\ Logical(store_realt_[last.key]) = trace[i].vals /\ Logical(store_[last.key]) = trace[i].vals /\ trace[i].vals # last.vals
  /\ Pending(last.key) = <<>>

\* C29: in sync mode the pending list of every key holds at most NumWorkers
\* requests in every reachable state, whatever num_merge the pushes carry.
C29_PendingAtMostN == sync_mode_ => \A k \in Keys : Len(Pending(k)) <= NumWorkers

\* C30: under LeMethod, when LocalAggregation enqueues a pass for key k the
\* stored tensor of k, and the bytes handed to the pass, are the sum of the
\* LOCAL_AGGREGATION tensors that have arrived for k since the last pass of
\* k, and these messages carry NumWorkers gradients between them, whichever
\* messages of other keys arrived in between.
RECURSIVE C30_Sum(_)
C30_Sum(msgs) == IF Len(msgs) = 1 THEN msgs[1].vals ELSE Plus(C30_Sum(SubSeq(msgs, 1, Len(msgs) - 1)), msgs[Len(msgs)].vals)
RECURSIVE C30_Gradients(_)
C30_Gradients(msgs) == IF msgs = <<>> THEN 0 ELSE C30_Gradients(Tail(msgs)) + Head(msgs).num_aggregation
C30_Iteration == Append(received[last'.key], [vals |-> last'.vals, num_aggregation |-> last'.meta.num_aggregation])
C30_PassEnqueued == last'.kind = "push" /\ last'.requestType = kDefaultPushPull /\ last'.meta.control_cmd = LOCAL_AGGREGATION /\ tasks' # tasks
C30_Step ==
  C30_PassEnqueued =>
    /\ Logical(store_'[last'.key]) = C30_Sum(C30_Iteration)
    /\ kvs'[tasks'[Len(tasks')]].vals = C30_Sum(C30_Iteration)
    /\ C30_Gradients(C30_Iteration) = NumWorkers
C30_PassCarriesSumOfKey == [][C30_Step]_vars

\* C31: the bytes bound to a pass when it is enqueued are the value the
\* stored tensor of its key has at that moment; nothing changes them
\* afterwards, whatever requests the RPC thread handles while the pass is
\* queued or running; and every message the pass sends carries them.
C31_Enqueued == tasks' # tasks
C31_Snapshot == LET t == tasks'[Len(tasks')] IN kvs'[t].key = last'.key /\ kvs'[t].vals = Logical(store_'[last'.key])
C31_Bound == {t \in 1..MaxTasks : kvs[t] # NoKvs}
C31_Step ==
  /\ (C31_Enqueued /\ Len(tasks') > Len(tasks)) => C31_Snapshot
  /\ \A t \in C31_Bound : kvs'[t] = kvs[t]
  /\ \A i \in Sends(pass') : pass'[i].msg.vals = kvs'[md'.task].vals /\ pass'[i].msg.key = kvs'[md'.task].key
C31_PassSendsSnapshot == [][C31_Step]_vars

\* C32: the pool has one worker, so at most one ModelDistribution task is
\* taken at any time and the tasks are taken in the order of their enqueue:
\* the passes that have ended are tasks 1, 2, ... and the one that runs is
\* the next.  iteration_ changes only when a pass begins, by one, so it is
\* the number of passes begun, and the version of every message of the k-th
\* pass enqueued is k.
C32_Taken == {w \in DOMAIN workers : workers[w].pc = "task()"}
C32_OneAtATime ==
  /\ Cardinality(C32_Taken) <= 1
  /\ ran = [i \in 1..Len(ran) |-> i]
  /\ \A w \in C32_Taken : workers[w].task = Len(ran) + 1
  /\ \A i \in DOMAIN tasks : tasks[i] = Len(ran) + Cardinality(C32_Taken) + i
  /\ md.pc # "idle" => C32_Taken # {} /\ md.task = Len(ran) + 1 /\ md.task = iteration_ /\ md.msg.version = md.task
  /\ md.pc = "idle" => iteration_ = Len(ran)
  /\ \A i \in Sends(pass) : pass[i].msg.version = md.task
C32_Step ==
  iteration_' # iteration_ =>
    /\ iteration_' = iteration_ + 1
    /\ md.pc = "idle" /\ md'.pc # "idle"
    /\ md'.task = iteration_' /\ md'.msg.version = iteration_'
C32_PassesInEnqueueOrder == []C32_OneAtATime /\ [][C32_Step]_vars
\* the second pass enqueued runs after the first has ended, with version 2
C32_Witness ==
  /\ iteration_ = 2 /\ ran = <<1>> /\ md.task = 2 /\ md.pc = "WaitForModelDistributionReply"
  /\ \E i \in Sends(pass) : pass[i].msg.version = 2 /\ pass[i].msg.timestamp = kvs[2].reqMeta.timestamp

====
